---- MODULE Spec2Model ----
(***************************************************************************)
(* ChessBuddy: the bitboard chess engine (package chess), the 0x88 engine  *)
(* used by the game runner, the matcher hookUp and the game runner play(). *)
(***************************************************************************)
EXTENDS Integers, Sequences, FiniteSets, TLC

(***************************************************************************)
(* Part I.  Package chess: the bitboard Board.                             *)
(* A Bitboard (uint64) is modelled as the set of its set bit positions.    *)
(***************************************************************************)

\* Piece kinds and colours (const block of package chess).
P == 1
N == 2
B == 3
R == 4
Q == 5
K == 6
White == 8
Black == 16
ColorMask == 24

Squares == 0 .. 63
AllBits == 0 .. 63

\* piece & PieceMask
PieceOf(p) == p % 8

\* piece & ColorMask
ColorOf(p) == (p \div 8) * 8

\* c ^ ColorMask, for c a colour field (0, 8, 16 or 24)
ColorFlip(c) == ColorMask - c

Min(S) == CHOOSE x \in S : \A y \in S : x <= y

\* NewBoard(): the initial position.
BackRank == <<R, N, B, Q, K, B, N, R>>

NewBoard ==
  [ board     |-> [s \in Squares |->
                     IF s < 8 THEN BackRank[s + 1] + White
                     ELSE IF s < 16 THEN P + White
                     ELSE IF s < 48 THEN 0
                     ELSE IF s < 56 THEN P + Black
                     ELSE BackRank[s - 55] + Black],
    occupied  |-> (0 .. 15) \cup (48 .. 63),
    moved     |-> {},
    color     |-> White,
    eps       |-> -1,
    check     |-> FALSE,
    stalemate |-> FALSE,
    hist      |-> << >> ]

\* The directions in which a piece kind may slide or step (0x88 offsets).
\* init(): the entries of blockers set to 0 before the sliding loop.
StepDirs(kind) ==
  CASE kind = N -> {153, 151, 138, 134, 106, 102, 89, 87}
    [] kind = B -> {137, 135, 105, 103}
    [] kind = R -> {121, 136, 119, 104}
    [] kind = Q -> {121, 136, 119, 104, 137, 135, 105, 103}
    [] kind = K -> {137, 136, 135, 121, 119, 105, 104, 103}
    [] OTHER    -> {}

\* The bit the sliding loop ors in at step i along 0x88 direction d:
\* 1<<uint(i*s) forwards, 1<<uint(64-i*s) backwards.
SlideBit(d, i) ==
  CASE d = 1   -> i
    [] d = -1  -> 64 - i
    [] d = 15  -> i * 7
    [] d = -15 -> 64 - i * 7
    [] d = 16  -> i * 8
    [] d = -16 -> 64 - i * 8
    [] d = 17  -> i * 9
    [] d = -17 -> 64 - i * 9

\* init(): the blockers lookup table, blockers[kind][x88diff].
blockers ==
  [kind \in 0 .. 6 |-> [x \in 0 .. 239 |->
     IF kind = P
     THEN CASE x = 136 -> {8}
            [] x = 152 -> {8, 16}
            [] x = 135 -> {}
            [] x = 137 -> {}
            [] x = 104 -> {56}
            [] x = 88  -> {56, 48}
            [] x = 103 -> {}
            [] x = 105 -> {}
            [] OTHER   -> AllBits
     ELSE IF kind \in {B, R, Q}
     THEN LET hits == {dn \in {1, -1, 15, -15, 16, -16, 17, -17} \X (1 .. 7) :
                          x = 120 + dn[2] * dn[1]}
          IN IF hits = {} THEN AllBits
             ELSE LET dn == CHOOSE h \in hits : TRUE
                  IN IF (120 + dn[1]) \in StepDirs(kind)
                     THEN {SlideBit(dn[1], i) : i \in 1 .. (dn[2] - 1)}
                     ELSE AllBits
     ELSE IF x \in StepDirs(kind) THEN {} ELSE AllBits]]

\* mayMove: x88diff := int(dst - src + (dst | 7) - (src | 7) + 120)
X88Diff(src, dst) == dst - src + ((dst \div 8) * 8 + 7) - ((src \div 8) * 8 + 7) + 120

\* mayMove: blockers[piece&PieceMask][x88diff] & occ == 0, where occ is
\* b.occupied rotated right by src, so that bit j of the blockers entry bl
\* meets square (j + src) mod 64.
unblocked(bl, occupied, src) ==
  IF bl = AllBits THEN occupied = {}
  ELSE \A j \in bl : ((j + src) % 64) \notin occupied

\* mayMove: additional rules for pawn movements and captures (TRUE = refused).
pawnRefused(piece, victim, x88diff, src, dst, eps) ==
  /\ PieceOf(piece) = P
  /\ \/ (victim = 0 /\ src % 8 # dst % 8 /\ dst # eps)
     \/ (piece = P + White /\ (src > dst \/ (x88diff = 152 /\ src \div 8 # 1)))
     \/ (piece = P + Black /\ (src < dst \/ (x88diff = 88 /\ src \div 8 # 6)))

\* mayMove(src, dst): pseudo-legal pattern test.
mayMove(b, src, dst) ==
  /\ ColorOf(b.board[src]) # ColorOf(b.board[dst])
  /\ unblocked(blockers[PieceOf(b.board[src])][X88Diff(src, dst)], b.occupied, src)
  /\ ~pawnRefused(b.board[src], b.board[dst], X88Diff(src, dst), src, dst, b.eps)

\* isCheck: the first square holding the king of the side to move, else 0.
kingSquare(ks) == IF ks = {} THEN 0 ELSE Min(ks)

\* isCheck: is dst attacked by a piece of colour opponent?
attacked(b, dst, opponent) ==
  \E src \in Squares : ColorOf(b.board[src]) = opponent /\ mayMove(b, src, dst)

\* isCheck(): is the king of the side to move attacked?
isCheck(b) ==
  attacked(b, kingSquare({p \in Squares : b.board[p] = K + b.color}), ColorFlip(b.color))

\* canMove: the tentative move of piece from src to dst.
canMoveDo(b, src, dst, piece) ==
  [b EXCEPT !.board = [@ EXCEPT ![dst] = piece, ![src] = 0],
            !.occupied = (@ \ {src}) \cup {dst}]

\* canMove: the tentative move taken back; the dst bit is cleared only if
\* there was no victim.
canMoveUndo(t, src, dst, piece, victim) ==
  [t EXCEPT !.board = [@ EXCEPT ![src] = piece, ![dst] = victim],
            !.occupied = IF victim = 0 THEN (@ \cup {src}) \ {dst} ELSE @ \cup {src}]

\* canMove, after mayMove has accepted: t is the board with the move applied.
canMoveTest(t, src, dst, piece, victim) ==
  [b |-> canMoveUndo(t, src, dst, piece, victim), ok |-> ~isCheck(t)]

\* canMove(src, dst): tentatively applies the move, tests check, restores.
\* Returns the board as the call leaves it, and the answer.
canMove(b, src, dst) ==
  IF ~mayMove(b, src, dst) THEN [b |-> b, ok |-> FALSE]
  ELSE canMoveTest(canMoveDo(b, src, dst, b.board[src]), src, dst, b.board[src], b.board[dst])

\* canCastle: b.board[x], b.board[y] = b.board[y], 0 (assigned left to right).
shiftKing(b, x, y) == [b EXCEPT !.board = [@ EXCEPT ![x] = b.board[y], ![y] = 0]]

\* canCastle: b.board[nking], b.board[king] = 0, b.board[nking]
unshiftKing(b, king, nking) ==
  [b EXCEPT !.board = [@ EXCEPT ![nking] = 0, ![king] = b.board[nking]]]

\* canCastle: the loop moving the king square by square from i to nking;
\* castleStep is the body of the loop, r the result of canMove(i, i+step).
RECURSIVE castleLoop(_, _, _, _, _)
castleStep(r, king, nking, step, i) ==
  IF ~r.ok THEN [b |-> shiftKing(r.b, king, i), ok |-> FALSE]
  ELSE castleLoop(shiftKing(r.b, i + step, i), king, nking, step, i + step)

castleLoop(b, king, nking, step, i) ==
  IF i = nking THEN [b |-> unshiftKing(b, king, nking), ok |-> TRUE]
  ELSE castleStep(canMove(b, i, i + step), king, nking, step, i)

\* canCastle without its test of b.moved.
canCastleMovedIgnored(b, king, rook) ==
  IF b.check \/ ~mayMove(b, rook, IF rook < king THEN rook + 3 ELSE rook - 2)
  THEN [b |-> b, ok |-> FALSE]
  ELSE castleLoop(b, king, IF rook < king THEN king - 2 ELSE king + 2,
                  IF rook < king THEN -1 ELSE 1, king)

\* canCastle(king, rook)
canCastle(b, king, rook) ==
  IF b.moved \cap {king, rook} # {} THEN [b |-> b, ok |-> FALSE]
  ELSE IF b.check \/ ~mayMove(b, rook, IF rook < king THEN rook + 3 ELSE rook - 2)
  THEN [b |-> b, ok |-> FALSE]
  ELSE castleLoop(b, king, IF rook < king THEN king - 2 ELSE king + 2,
                  IF rook < king THEN -1 ELSE 1, king)

\* formatStatus()
formatStatus(b) ==
  IF b.check THEN (IF b.stalemate THEN <<"#">> ELSE <<"+">>) ELSE << >>

\* castleApply leaving the rook on its corner square.
castleApplyKingOnly(b, king, rook, nking, nrook) ==
  [b EXCEPT !.board = [@ EXCEPT ![nking] = b.board[king], ![king] = 0],
            !.occupied = (@ \ {king}) \cup {nking},
            !.moved = @ \cup {king, rook},
            !.color = ColorFlip(@),
            !.hist = Append(@, (IF rook < king THEN <<"0", "-", "0", "-", "0">>
                                ELSE <<"0", "-", "0">>) \o formatStatus(b))]

\* doCastle, after canCastle has accepted: king and rook are relocated,
\* occupied and moved updated, the colour flipped, the half-move logged.
castleApply(b, king, rook, nking, nrook) ==
  [b EXCEPT !.board = [@ EXCEPT ![nking] = b.board[king], ![king] = 0,
                                ![nrook] = b.board[rook], ![rook] = 0],
            !.occupied = (@ \ {king, rook}) \cup {nking, nrook},
            !.moved = @ \cup {king, rook},
            !.color = ColorFlip(@),
            !.hist = Append(@, (IF rook < king THEN <<"0", "-", "0", "-", "0">>
                                ELSE <<"0", "-", "0">>) \o formatStatus(b))]

\* doCastle, given the result r of canCastle.
castleResult(r, king, rook) ==
  IF ~r.ok THEN r
  ELSE [b |-> castleApply(r.b, king, rook,
                          IF rook < king THEN king - 2 ELSE king + 2,
                          IF rook < king THEN rook + 3 ELSE rook - 2),
        ok |-> TRUE]

\* doCastle(king, rook)
doCastle(b, king, rook) == castleResult(canCastle(b, king, rook), king, rook)

\* isStalemate: the loops over src and dst.  canMove leaves the board alone
\* when mayMove fails, and src is skipped when its piece is not of the side
\* to move, so the loops go from one pseudo-legal move of the side to move
\* to the next.  staleDsts are the destinations of s still to be tried when
\* the loops stand at (src, dst), staleFirst the next move to be tried, as
\* s * 64 + d (NoMove if there is none).
NoMove == 4096

staleDsts(b, s, src, dst) ==
  {d \in (IF s = src THEN dst ELSE 0) .. 63 : mayMove(b, s, d)}

staleSrc(b, s, src, dst) == s * 64 + Min(staleDsts(b, s, src, dst))

staleSrcs(b, src, dst, srcs) ==
  IF srcs = {} THEN NoMove ELSE staleSrc(b, Min(srcs), src, dst)

staleFirst(b, src, dst) ==
  staleSrcs(b, src, dst, {s \in src .. 63 : /\ ColorOf(b.board[s]) = b.color
                                            /\ staleDsts(b, s, src, dst) # {}})

\* isStalemate: the loops from (src, dst) on; m is the next move to be tried
\* and r the result of canMove for it.
RECURSIVE scanStale(_, _, _)
staleStep(r, m) ==
  IF r.ok THEN [b |-> r.b, ok |-> FALSE] ELSE scanStale(r.b, m \div 64, (m % 64) + 1)

staleNext(b, m) ==
  IF m = NoMove THEN [b |-> b, ok |-> TRUE]
  ELSE staleStep(canMove(b, m \div 64, m % 64), m)

scanStale(b, src, dst) == staleNext(b, staleFirst(b, src, dst))

\* isStalemate()
isStalemate(b) == scanStale(b, 0, 0)

FileChr(f) == <<"a", "b", "c", "d", "e", "f", "g", "h">>[f + 1]
RankChr(r) == <<"1", "2", "3", "4", "5", "6", "7", "8">>[r + 1]
PieceChr(x) == <<" ", "P", "N", "B", "R", "Q", "K">>[x + 1]

\* formatMove(src, dst): SAN of a move that is about to be applied.
formatMove(b, src, dst) ==
  LET x == PieceOf(b.board[src])
      others == {p \in Squares : b.board[p] = b.board[src] /\ p # src /\ mayMove(b, p, dst)}
      file == \E p \in others : p % 8 # src % 8
      rank == \E p \in others : p % 8 = src % 8
      capture == b.board[dst] # 0 \/ (x = P /\ b.eps = dst)
  IN (IF x # P THEN <<PieceChr(x)>> ELSE << >>)
     \o (IF file \/ (x = P /\ capture) THEN <<FileChr(src % 8)>> ELSE << >>)
     \o (IF rank THEN <<RankChr(src \div 8)>> ELSE << >>)
     \o (IF capture THEN <<"x">> ELSE << >>)
     \o <<FileChr(dst % 8), RankChr(dst \div 8)>>

\* Move: b.board[dst], b.board[src] = b.board[src], 0 and the occupied update.
movePiece(b, src, dst) ==
  [b EXCEPT !.board = [@ EXCEPT ![dst] = b.board[src], ![src] = 0],
            !.occupied = (@ \ {src}) \cup {dst}]

\* Move: additional rules for en-passant captures.
moveEnPassant(b, dst) ==
  IF b.board[dst] = P + White /\ dst = b.eps
  THEN [b EXCEPT !.board[dst - 8] = 0, !.occupied = @ \ {dst - 8}]
  ELSE IF b.board[dst] = P + Black /\ dst = b.eps
  THEN [b EXCEPT !.board[dst + 8] = 0, !.occupied = @ \ {dst + 8}]
  ELSE b

\* Move: the en passant target left by a two-square pawn advance, else none.
moveEps(b, src, dst) ==
  [b EXCEPT !.eps = IF b.board[dst] = P + White /\ dst - src = 16 THEN dst - 8
                    ELSE IF b.board[dst] = P + Black /\ dst - src = -16 THEN dst + 8
                    ELSE -1]

\* movePromote leaving the pawn a pawn.
movePromoteNever(b, src, dst) ==
  [b EXCEPT !.moved = @ \cup {src}, !.color = ColorFlip(@)]

\* movePromote without the colour flip.
movePromoteSameSide(b, src, dst) ==
  [b EXCEPT !.board[dst] = IF PieceOf(@) = P /\ (dst \div 8 = 0 \/ dst \div 8 = 7)
                           THEN Q + ColorOf(@) ELSE @,
            !.moved = @ \cup {src}]

\* Move: promotion, then moved |= 1<<src and the colour flip.
movePromote(b, src, dst) ==
  [b EXCEPT !.board[dst] = IF PieceOf(@) = P /\ (dst \div 8 = 0 \/ dst \div 8 = 7)
                           THEN Q + ColorOf(@) ELSE @,
            !.moved = @ \cup {src},
            !.color = ColorFlip(@)]

\* moveStatus without the append to the history.
moveStatusUnlogged(st, log) ==
  [b |-> [st.b EXCEPT !.stalemate = st.ok], ok |-> TRUE]

\* Move: b.check = b.isCheck(); b.stalemate = b.isStalemate(); st is the
\* result of isStalemate called on the board whose check flag is already set.
moveStatus(st, log) ==
  [b |-> [st.b EXCEPT !.stalemate = st.ok,
                      !.hist = Append(@, log \o (IF st.b.check
                                                 THEN (IF st.ok THEN <<"#">> ELSE <<"+">>)
                                                 ELSE << >>))],
   ok |-> TRUE]

\* Move(src, dst), after canMove has accepted: log is formatMove's text.
moveApply(b, log) ==
  moveStatus(isStalemate([b EXCEPT !.check = isCheck(b)]), log)

\* Move(src, dst), after the castling dispatch, given the result r of canMove.
moveResult(r, src, dst) ==
  IF ~r.ok THEN r
  ELSE moveApply(movePromote(moveEps(moveEnPassant(movePiece(r.b, src, dst), dst),
                                     src, dst), src, dst),
                 formatMove(r.b, src, dst))

\* Move(src, dst), after the castling dispatch: an ordinary move.
moveOrdinary(b, src, dst) == moveResult(canMove(b, src, dst), src, dst)

\* The run-time panic "index out of range" of b.board[src] or b.board[dst]:
\* the call does not return and the board is as it was.
indexPanic(b) == [b |-> b, ok |-> FALSE, panic |-> TRUE]

\* Move(src, dst).  The guard tests src < 0 and dst >= 64 (twice each); with
\* src >= 64 or dst < 0 no castling case applies and canMove calls mayMove,
\* whose first statement indexes b.board[src] and b.board[dst].
Move(b, src, dst) ==
  IF src < 0 \/ dst >= 64 THEN [b |-> b, ok |-> FALSE]
  ELSE IF src >= 64 \/ dst < 0 THEN indexPanic(b)
  ELSE IF src = 4 /\ b.board[src] = K + White /\ dst = 6 THEN doCastle(b, 4, 7)
  ELSE IF src = 4 /\ b.board[src] = K + White /\ dst = 2 THEN doCastle(b, 4, 0)
  ELSE IF src = 60 /\ b.board[src] = K + Black /\ dst = 62 THEN doCastle(b, 60, 63)
  ELSE IF src = 60 /\ b.board[src] = K + Black /\ dst = 58 THEN doCastle(b, 60, 56)
  ELSE moveOrdinary(b, src, dst)

\* Turn(): the current half-turn number, starting with one.
Turn(b) == Len(b.hist) + 1

\* LastMove(): the last entry of the history, "" if there is none.
LastMove(b) == IF Len(b.hist) = 0 THEN << >> ELSE b.hist[Len(b.hist)]

\* Moves(src): the loop over dst from dst on, canMove applied to each
\* pseudo-legal destination in turn; acc are the moves found so far.
RECURSIVE scanMoves(_, _, _, _)
movesStep(r, src, d, acc) ==
  scanMoves(r.b, src, d + 1, IF r.ok THEN Append(acc, d) ELSE acc)

movesNext(b, src, cand, acc) ==
  IF cand = {} THEN [b |-> b, moves |-> acc]
  ELSE movesStep(canMove(b, src, Min(cand)), src, Min(cand), acc)

scanMoves(b, src, dst, acc) ==
  movesNext(b, src, {d \in dst .. 63 : mayMove(b, src, d)}, acc)

\* Moves: "if b.canCastle(king, rook) { moves = append(moves, dst) }", given
\* the result r of canCastle.
movesAppend(r, moves, dst) ==
  [b |-> r.b, moves |-> IF r.ok THEN Append(moves, dst) ELSE moves]

\* Moves: the second canCastle call, on the board and list k left by the first.
movesQueenSide(k, king, qrook, qdst) ==
  movesAppend(canCastle(k.b, king, qrook), k.moves, qdst)

\* Moves: the two canCastle calls for a king on src (king side first).
movesCastle(m, king, krook, kdst, qrook, qdst) ==
  movesQueenSide(movesAppend(canCastle(m.b, king, krook), m.moves, kdst), king, qrook, qdst)

\* Moves, after the loop over dst has returned m.
movesKing(m, src) ==
  IF m.b.board[src] = K + White THEN movesCastle(m, 4, 7, 6, 0, 2)
  ELSE IF m.b.board[src] = K + Black THEN movesCastle(m, 60, 63, 62, 56, 58)
  ELSE m

\* Moves(src)
Moves(b, src) == movesKing(scanMoves(b, src, 0, << >>), src)

\* strings.TrimRight(text, "?!+#")
RECURSIVE TrimRight(_, _)
TrimRight(text, cut) ==
  IF Len(text) > 0 /\ text[Len(text)] \in cut
  THEN TrimRight(SubSeq(text, 1, Len(text) - 1), cut)
  ELSE text

\* strings.Replace(s, "O", "0", -1)
ReplaceO(s) == [i \in 1 .. Len(s) |-> IF s[i] = "O" THEN "0" ELSE s[i]]

FileChars == {"a", "b", "c", "d", "e", "f", "g", "h"}
RankChars == {"1", "2", "3", "4", "5", "6", "7", "8"}
FileIdx(c) == CHOOSE f \in 0 .. 7 : FileChr(f) = c
RankIdx(c) == CHOOSE r \in 0 .. 7 : RankChr(r) = c

\* reSAN: ^([PNBRQK]?)([a-h])?([1-8])?([\-x]?)([a-h])([1-8])$
\* The character classes of the four optional groups are disjoint, so the
\* match, when there is one, is unique: each group takes its character if the
\* next character of the prefix is in its class.
reSAN(san) ==
  LET n == Len(san)
      pre == IF n >= 2 THEN SubSeq(san, 1, n - 2) ELSE << >>
      has1 == Len(pre) >= 1 /\ pre[1] \in {"P", "N", "B", "R", "Q", "K"}
      r1 == IF has1 THEN Tail(pre) ELSE pre
      has2 == Len(r1) >= 1 /\ r1[1] \in FileChars
      r2 == IF has2 THEN Tail(r1) ELSE r1
      has3 == Len(r2) >= 1 /\ r2[1] \in RankChars
      r3 == IF has3 THEN Tail(r2) ELSE r2
      has4 == Len(r3) >= 1 /\ r3[1] \in {"-", "x"}
      r4 == IF has4 THEN Tail(r3) ELSE r3
  IN IF n >= 2 /\ san[n - 1] \in FileChars /\ san[n] \in RankChars /\ r4 = << >>
     THEN [ok |-> TRUE,
           m1 |-> IF has1 THEN pre[1] ELSE "", m2 |-> IF has2 THEN r1[1] ELSE "",
           m3 |-> IF has3 THEN r2[1] ELSE "", m4 |-> IF has4 THEN r3[1] ELSE "",
           m5 |-> san[n - 1], m6 |-> san[n]]
     ELSE [ok |-> FALSE, m1 |-> "", m2 |-> "", m3 |-> "", m4 |-> "", m5 |-> "", m6 |-> ""]

\* MoveSAN: the candidates loop; cands are the squares that passed the
\* piece, file, rank and mayMove filters.
sanUnique(b, cands, dst) ==
  IF Cardinality(cands) # 1 THEN [b |-> b, ok |-> FALSE]
  ELSE Move(b, CHOOSE p \in cands : TRUE, dst)

\* MoveSAN, after the regular expression has matched with groups m.
sanResolve(b, m, dst, piece) ==
  IF m.m4 = "x" /\ ColorOf(b.board[dst]) # ColorFlip(b.color)
  THEN [b |-> b, ok |-> FALSE]
  ELSE IF m.m2 # "" /\ m.m3 # ""
  THEN Move(b, FileIdx(m.m2) + RankIdx(m.m3) * 8, dst)
  ELSE sanUnique(b, {p \in Squares :
                       /\ b.board[p] = piece
                       /\ (m.m2 = "" \/ FileIdx(m.m2) = p % 8)
                       /\ (m.m3 = "" \/ RankIdx(m.m3) = p \div 8)
                       /\ mayMove(b, p, dst)}, dst)

\* MoveSAN: the piece letter of group 1, a pawn when it is empty.
sanPiece(c) ==
  CASE c = "N" -> N [] c = "B" -> B [] c = "R" -> R [] c = "Q" -> Q [] c = "K" -> K
    [] OTHER -> P

\* MoveSAN: m is the result of reSAN.FindStringSubmatch(san).
sanMatch(b, m) ==
  IF ~m.ok THEN [b |-> b, ok |-> FALSE]
  ELSE sanResolve(b, m, FileIdx(m.m5) + RankIdx(m.m6) * 8, sanPiece(m.m1) + b.color)

\* MoveSAN, after trimming and replacing: the castling switch, else the match.
sanDispatch(b, san) ==
  IF san = <<"0", "-", "0">> /\ b.color = White THEN doCastle(b, 4, 7)
  ELSE IF san = <<"0", "-", "0">> /\ b.color = Black THEN doCastle(b, 60, 63)
  ELSE IF san = <<"0", "-", "0", "-", "0">> /\ b.color = White THEN doCastle(b, 4, 0)
  ELSE IF san = <<"0", "-", "0", "-", "0">> /\ b.color = Black THEN doCastle(b, 60, 56)
  ELSE IF san = <<"0", "-", "0">> \/ san = <<"0", "-", "0", "-", "0">>
  THEN [b |-> b, ok |-> FALSE]
  ELSE sanMatch(b, reSAN(san))

\* MoveSAN(text); an error result is ok = FALSE.
MoveSAN(b, text) == sanDispatch(b, ReplaceO(TrimRight(text, {"?", "!", "+", "#"})))

(***************************************************************************)
(* The bitboard Board driven by its callers.  A caller first follows one   *)
(* of the recorded games of Lines from NewBoard() (MoveSAN, or Move for    *)
(* the en passant captures), then makes up to MaxFree arbitrary calls of   *)
(* Move, MoveSAN and Moves.                                                *)
(***************************************************************************)
VARIABLES
  bb,      \* the Board
  trail,   \* the calls of the recorded game made so far
  free,    \* the number of arbitrary calls made
  last,    \* the last call: op, src, dst, ok, kind, and pre, the Board before it
  adv,     \* the two-square pawn advance made by the last accepted half-move
  \* play(a, b) and the two players' handleWS tasks
  board,     \* play: board, the 0x88 Board of the game
  mover,     \* play: the player variable a refers to; b is the other one
  white,     \* Player.White of each player
  remaining, \* Player.Remaining of each player, in ticks
  start,     \* play: start
  now,       \* the clock time.Now() reads, in ticks
  pc,        \* play: the statement the runner is at
  msg,       \* play: msg
  out,       \* the contents of each player's out queue
  closed,    \* whether each player's out queue has been closed
  sender,    \* handleWS: each player's "for msg := range out" loop
  conn,      \* each player's connection: open, gone (the client left) or closed (ws.Close())
  foreign,   \* ticks since start spent blocked on the queue of the player not to move
  charge,    \* the last time charged to a player: who, how, and the foreign ticks in it
  lastEnq,   \* the last frame enqueued: for whom, and the clocks at that moment
  got,       \* what each player's client has received: phase and number of echoes
  lastRead,  \* the last frame read: how it was handled, and a bit flipped by each read
  \* hookUp and the pool of available players
  entered,   \* the clients whose handleWS has put them into the pool of available players
  available, \* the contents of the channel available
  holdA,     \* hookUp: a (0: none)
  holdB,     \* hookUp: b (0: none)
  hpc,       \* hookUp: the statement the matcher is at
  games,     \* the pairs play was started for, in order
  dropped,   \* the clients whose out queue hookUp closed
  failed,    \* whether some liveness probe has returned false
  numPlayers, \* the counter numPlayers
  session,   \* each client's handleWS: none, enter (before available <- ...), range, done
  ws,        \* each client's connection: none, open, gone (the client left) or closed
  \* the runners of the games hookUp has started, seen from their out queues
  over,      \* the games (indices of games) whose play has returned
  late,      \* the clients on whose out queue a frame was enqueued after its close
  lastTo,    \* the client on whose out queue a runner enqueued last (0: none)
  \* the 0x88 Board driven through MoveSAN, as board_test.go drives it
  tb,        \* the Board b of testGame
  tbTrail,   \* the texts of the recorded game played so far
  tbFree,    \* the number of arbitrary calls made
  tbLast     \* the last call: op, its text (none for Move), ok

bbvars == <<bb, trail, free, last, adv>>
playvars == <<board, mover, white, remaining, start, now, pc, msg, out, closed,
              sender, conn, foreign, charge, lastEnq, lastRead, got>>
runvars == <<over, late, lastTo>>
matchvars == <<entered, available, holdA, holdB, hpc, games, dropped, failed,
               numPlayers, session, ws, runvars>>
tbvars == <<tb, tbTrail, tbFree, tbLast>>

MaxFree == 1

T2(a, b) == <<a, b>>
T3(a, b, c) == <<a, b, c>>
T4(a, b, c, d) == <<a, b, c, d>>
San(t) == [san |-> t]
Mv(src, dst) == [src |-> src, dst |-> dst]
OO == <<"O", "-", "O">>
OOO == <<"O", "-", "O", "-", "O">>

\* Recorded games.
LineCastleIntoCheck ==   \* ends with f1 attacked by the bishop on a6
  << San(T2("e","4")), San(T2("b","6")), San(T3("B","e","2")), San(T3("B","a","6")),
     San(T3("B","g","4")), San(T2("h","6")), San(T3("N","f","3")), San(T2("g","6")) >>
LineCastleLong ==        \* the same, continued until White is free to castle long
  << San(T2("e","4")), San(T2("b","6")), San(T3("B","e","2")), San(T3("B","a","6")),
     San(T3("B","g","4")), San(T2("h","6")), San(T3("N","f","3")), San(T2("g","6")),
     San(T3("N","c","3")), San(T3("N","c","6")), San(T2("d","4")), San(T3("N","f","6")),
     San(T3("B","e","3")), San(T2("e","6")), San(T3("Q","d","2")), San(T3("B","e","7")) >>
LineCastle ==            \* Black advances d7-d5, White castles, Black castles long later
  << San(T2("e","4")), San(T2("e","5")), San(T3("N","f","3")), San(T3("N","c","6")),
     San(T3("B","c","4")), San(T2("d","5")), San(OO), San(T3("B","e","6")),
     San(T2("d","3")), San(T3("Q","d","7")), San(T2("a","4")), San(OOO) >>
LineItalian ==           \* both sides ready to castle short
  << San(T2("e","4")), San(T2("e","5")), San(T3("N","f","3")), San(T3("N","c","6")),
     San(T3("B","c","4")), San(T3("B","c","5")), San(T2("d","3")), San(T3("N","f","6")) >>
LineKingReturns ==       \* the white king and the black rook move away and return
  << San(T2("e","4")), San(T2("e","5")), San(T3("N","f","3")), San(T3("N","f","6")),
     San(T3("B","c","4")), San(T3("B","c","5")), San(T3("K","e","2")), San(T3("R","g","8")),
     San(T3("K","e","1")), San(T3("R","h","8")), San(T2("a","3")) >>
LineEnPassant ==         \* e4 a6 e5 d5 exd6
  << San(T2("e","4")), San(T2("a","6")), San(T2("e","5")), San(T2("d","5")), Mv(36, 43) >>
LineEnPassantSAN ==      \* the same, the capture given in SAN
  << San(T2("e","4")), San(T2("a","6")), San(T2("e","5")), San(T2("d","5")),
     San(T4("e","x","d","6")) >>
LineEnPassantPin ==      \* the white king on h5 behind the pawns g5 and f5
  << San(T2("e","3")), San(T2("c","6")), San(T2("g","4")), San(T3("Q","a","5")),
     San(T2("g","5")), San(T2("a","6")), San(T3("K","e","2")), San(T2("b","6")),
     San(T3("K","f","3")), San(T3("R","a","7")), San(T3("K","g","4")), San(T3("R","b","7")),
     San(T3("K","h","5")), San(T2("f","5")) >>
LinePromotion ==         \* the h-pawn takes its way to g8
  << San(T2("h","4")), San(T2("g","5")), San(T4("h","x","g","5")), San(T2("a","6")),
     San(T2("g","6")), San(T2("a","5")), San(T4("g","x","h","7")), San(T2("a","4")) >>
LineCastleWithCheck ==   \* f4 e5 fxe5 f6 exf6 Nxf6 Nh3 Kf7 e3 Nd5 Bc4 h6 0-0
  << Mv(13, 29), Mv(52, 36), Mv(29, 36), Mv(53, 45), Mv(36, 45), Mv(62, 45), Mv(6, 23),
     Mv(60, 53), Mv(12, 20), Mv(45, 35), Mv(5, 26), Mv(55, 47), Mv(4, 6) >>
LineFoolsMate ==
  << San(T2("f","3")), San(T2("e","6")), San(T2("g","4")), San(T3("Q","h","4")) >>

Lines == {LineCastleIntoCheck, LineCastleLong, LineCastle, LineItalian, LineKingReturns,
          LineEnPassant, LineEnPassantSAN, LineEnPassantPin,
          LinePromotion, LineFoolsMate, LineCastleWithCheck}

\* Texts tried by the arbitrary MoveSAN calls.
FreeTexts == {OO, OOO, <<"0", "-", "0", "!">>, T2("e","5"), T4("e","x","d","6"),
              T4("h","x","g","8"), T3("N","c","3"), T3("K","f","1"), T4("Q","x","f","7"),
              T4("e","2","e","4"), T2("z","z")}

IsCastleCall(b, src, dst) ==
  \/ (src = 4 /\ b.board[4] = K + White /\ dst \in {6, 2})
  \/ (src = 60 /\ b.board[60] = K + Black /\ dst \in {62, 58})

BBInit ==
  /\ bb = NewBoard
  /\ trail = << >>
  /\ free = 0
  /\ last = [op |-> "NewBoard", kind |-> "none", pre |-> NewBoard, adv |-> [sq |-> -1, color |-> 0],
             ok |-> TRUE, moves |-> << >>, src |-> -1, dst |-> -1, left |-> {}, n |-> 0,
             panic |-> FALSE]
  /\ adv = [sq |-> -1, color |-> 0]

\* The two-square pawn advance, if any, that turned the squares pre into the
\* squares post: the square the pawn passed over and the pawn's colour.
Advance(pre, post) ==
  IF \E s \in 8 .. 15 : /\ pre[s] = P + White /\ post[s] = 0
                        /\ pre[s + 16] = 0 /\ post[s + 16] = P + White
  THEN [sq |-> 8 + CHOOSE s \in 8 .. 15 : /\ pre[s] = P + White /\ post[s] = 0
                                          /\ pre[s + 16] = 0 /\ post[s + 16] = P + White,
        color |-> White]
  ELSE IF \E s \in 48 .. 55 : /\ pre[s] = P + Black /\ post[s] = 0
                              /\ pre[s - 16] = 0 /\ post[s - 16] = P + Black
  THEN [sq |-> (CHOOSE s \in 48 .. 55 : /\ pre[s] = P + Black /\ post[s] = 0
                                        /\ pre[s - 16] = 0 /\ post[s - 16] = P + Black) - 8,
        color |-> Black]
  ELSE [sq |-> -1, color |-> 0]

\* The home squares of the kings and rooks.
HomeSquares == {0, 4, 7, 56, 60, 63}

\* The home squares that the call recorded in l, if it was an accepted
\* half-move, vacated on its way from l.pre to the squares post.
Vacated(l, post) ==
  IF l.op \in {"Move", "MoveSAN"} /\ l.ok
  THEN {sq \in HomeSquares : l.pre.board[sq] # 0 /\ post[sq] = 0}
  ELSE {}

\* A call has returned r: the board is as the call left it; last records the
\* operation, its squares src and dst (-1 where the call names none), its
\* answer (for Moves: the list, and whether it is non-empty), the board before
\* the call, the advance that preceded the call, and left, the home squares
\* whose king or rook moved away in a half-move before the call; adv is the
\* advance made by the last accepted half-move.
Returned(r, op, kind, src, dst) ==
  /\ bb' = r.b
  /\ last' = [op |-> op, kind |-> kind, pre |-> bb, adv |-> adv,
              ok |-> IF "ok" \in DOMAIN r THEN r.ok ELSE r.moves # << >>,
              moves |-> IF "moves" \in DOMAIN r THEN r.moves ELSE << >>,
              src |-> src, dst |-> dst,
              left |-> last.left \cup Vacated(last, bb.board),
              n |-> IF "ok" \in DOMAIN r /\ r.ok THEN last.n + 1 ELSE last.n,
              panic |-> "panic" \in DOMAIN r]
  /\ adv' = IF "ok" \in DOMAIN r /\ r.ok THEN Advance(bb.board, r.b.board) ELSE adv

\* The call c of a recorded game: MoveSAN(c.san) or Move(c.src, c.dst).
ScriptStep(c) ==
  /\ IF "san" \in DOMAIN c
     THEN Returned(MoveSAN(bb, c.san), "MoveSAN", "san", -1, -1)
     ELSE Returned(Move(bb, c.src, c.dst), "Move", "ordinary", c.src, c.dst)
  /\ trail' = Append(trail, c)

\* The next call of a recorded game.
ScriptCall ==
  /\ free = 0
  /\ \E l \in Lines :
       /\ Len(l) > Len(trail)
       /\ SubSeq(l, 1, Len(trail)) = trail
       /\ ScriptStep(l[Len(trail) + 1])
  /\ UNCHANGED <<free, playvars, matchvars, tbvars>>

\* An arbitrary call Move(src, dst).
CallMove ==
  /\ free < MaxFree
  /\ \E src \in Squares, dst \in Squares :
       Returned(Move(bb, src, dst), "Move",
                IF IsCastleCall(bb, src, dst) THEN "castle" ELSE "ordinary", src, dst)
  /\ free' = free + 1
  /\ UNCHANGED <<trail, playvars, matchvars, tbvars>>

\* An arbitrary call MoveSAN(text).
CallMoveSAN ==
  /\ free < MaxFree
  /\ \E text \in FreeTexts :
       Returned(MoveSAN(bb, text), "MoveSAN", "san", -1, -1)
  /\ free' = free + 1
  /\ UNCHANGED <<trail, playvars, matchvars, tbvars>>

\* An arbitrary call Moves(src).
CallMoves ==
  /\ free < MaxFree
  /\ \E src \in Squares :
       Returned(Moves(bb, src), "Moves", "query", src, -1)
  /\ free' = free + 1
  /\ UNCHANGED <<trail, playvars, matchvars, tbvars>>

\* A call Move(src, dst) with src or dst outside 0..63, by up to MaxBeyond.
\* Nothing is called after a panic.
MaxBeyond == 1
Beyond == (0 - MaxBeyond) .. (63 + MaxBeyond)

CallMoveBeyond ==
  /\ free < MaxFree
  /\ \E src \in Beyond, dst \in Beyond :
       /\ src \notin Squares \/ dst \notin Squares
       /\ Returned(Move(bb, src, dst), "Move", "beyond", src, dst)
       /\ free' = IF "panic" \in DOMAIN Move(bb, src, dst) THEN MaxFree ELSE free + 1
  /\ UNCHANGED <<trail, playvars, matchvars, tbvars>>

BBNext == ScriptCall \/ CallMove \/ CallMoveSAN \/ CallMoves \/ CallMoveBeyond


(***************************************************************************)
(* Properties of the bitboard Board.                                       *)
(***************************************************************************)

\* The last call was Move or MoveSAN and was rejected / accepted.
Rejected == last.op \in {"Move", "MoveSAN"} /\ ~last.ok /\ ~last.panic
Accepted == last.op \in {"Move", "MoveSAN"} /\ last.ok

\* C3: whenever Move, MoveSAN or a castling attempt is rejected, every field
\* of the board (squares, occupied, moved, side to move, ep target, check,
\* stalemate, history) is identical to its value before the call.
C3_RejectedCallLeavesBoard == Rejected => bb = last.pre

\* C4: in every reachable state, bit i of occupied is set if and only if
\* squares[i] is non-empty, for all 64 squares.
C4_OccupiedMatchesSquares == bb.occupied = {i \in Squares : bb.board[i] # 0}

\* The accepted half-move that turned the squares pre into post moved a pawn
\* diagonally from src onto the empty square dst.
DiagonalOntoEmpty(pre, post, src, dst) ==
  /\ PieceOf(pre[src]) = P /\ post[src] = 0
  /\ pre[dst] = 0 /\ post[dst] # 0 /\ ColorOf(post[dst]) = ColorOf(pre[src])
  /\ src % 8 # dst % 8
  /\ (dst - src) \in {7, 9, -7, -9}

\* C5: a diagonal move of a pawn of the side to move onto an empty square is
\* accepted only on the half-move immediately following an enemy pawn's
\* two-square advance over that square: the accepted half-move before the
\* call, castling included, was that advance.
C5_EnPassantOnlyAfterAdvance ==
  Accepted =>
    \A src \in Squares, dst \in Squares :
      (/\ ColorOf(last.pre.board[src]) = last.pre.color
       /\ DiagonalOntoEmpty(last.pre.board, bb.board, src, dst))
        => (last.adv.sq = dst /\ last.adv.color = ColorFlip(last.pre.color))

\* The board b with occupied recomputed from the squares.
Recounted(b) == [b EXCEPT !.occupied = {i \in Squares : b.board[i] # 0}]

\* The king of colour c is attacked by a piece of the other colour.
KingAttacked(b, c) ==
  \E k \in Squares : b.board[k] = K + c /\ attacked(Recounted(b), k, ColorFlip(c))

\* C10: after every accepted half-move, the king of the side that just moved
\* (the side to move before the call) is not attacked by any enemy piece.
C10_MoverKingNotAttacked == Accepted => ~KingAttacked(bb, last.pre.color)

\* The square src of the position b is empty or holds a piece of the side
\* that is not to move.
NotMovers(b, src) == ColorOf(b.board[src]) # b.color

\* C11: whenever src is empty or holds a piece of the side that is not to
\* move, Moves(src) is empty and Move(src, dst) is rejected for every dst.
C11_OnlyMoversPieces ==
  (last.op \in {"Move", "Moves"} /\ NotMovers(last.pre, last.src)) => ~last.ok

\* C12: the squares returned by Moves(src) are exactly the squares dst for
\* which Move(src, dst), applied to the position Moves was called on, returns
\* true.
C12_MovesAgreeWithMove ==
  last.op = "Moves" =>
    \A dst \in Squares :
      (\E i \in DOMAIN last.moves : last.moves[i] = dst)
        <=> Move(last.pre, last.src, dst).ok

\* The last call was Move(king, dst) asking the king of the side to move,
\* on its home square, to castle.
CastleCall ==
  /\ last.op = "Move" /\ last.kind = "castle"
  /\ ColorOf(last.pre.board[last.src]) = last.pre.color

\* The rook the castling from king to dst is made with.
CastleRook(king, dst) == IF dst > king THEN king + 3 ELSE king - 4

\* The squares the king crosses and lands on.
CastlePath(king, dst) == IF dst > king THEN {king + 1, king + 2} ELSE {king - 1, king - 2}

\* The king of the side to move, standing on sq instead of its square king,
\* would be attacked by an enemy piece.
AttackedOn(b, king, sq) ==
  attacked(Recounted([b EXCEPT !.board = [b.board EXCEPT ![king] = 0, ![sq] = K + b.color]]),
           sq, ColorFlip(b.color))

\* Castling from king to dst is forbidden in the position b, given the home
\* squares left whose king or rook has moved away.
CastlingForbidden(b, left, king, dst) ==
  \/ king \in left
  \/ CastleRook(king, dst) \in left
  \/ KingAttacked(b, b.color)
  \/ \E sq \in CastlePath(king, dst) : AttackedOn(b, king, sq)

C16_EnPassantBySAN ==
  /\ (free = 0 /\ trail # << >> /\ trail = SubSeq(LineEnPassantSAN, 1, Len(trail))) => last.ok
  /\ (free = 0 /\ trail = LineEnPassantSAN) =>
        /\ bb.board[35] = 0
        /\ bb.board[43] = P + White
        /\ bb.occupied = {s \in Squares : bb.board[s] # 0}

\* C21: the side to move is White on a new board, changes to the other colour
\* on every accepted half-move (Move, MoveSAN or castling), and is unchanged
\* by every rejected call and by Moves.
C21_SideToMoveAlternates ==
  /\ last.op = "NewBoard" => bb.color = White
  /\ Accepted => bb.color = ColorFlip(last.pre.color)
  /\ (Rejected \/ last.op = "Moves") => bb.color = last.pre.color

\* White has castled and Black is to move.
C21_CastledAndFlipped ==
  last.op = "Move" /\ last.kind = "castle" /\ last.ok /\ last.pre.color = White /\ bb.color = Black

\* C22: every accepted half-move (castling included) appends exactly one
\* entry to the history, LastMove() returns that entry, and Turn() equals the
\* number of accepted half-moves plus one (1 on a new board); a rejected call
\* changes none of the three.
C22_HistoryCountsAcceptedMoves ==
  /\ Turn(bb) = last.n + 1
  /\ Accepted => /\ Len(bb.hist) = Len(last.pre.hist) + 1
                 /\ SubSeq(bb.hist, 1, Len(last.pre.hist)) = last.pre.hist
                 /\ LastMove(bb) = bb.hist[Len(last.pre.hist) + 1]
                 /\ LastMove(bb) # << >>
  /\ Rejected => /\ bb.hist = last.pre.hist
                 /\ LastMove(bb) = LastMove(last.pre)
                 /\ Turn(bb) = Turn(last.pre)

\* Castling was accepted as the seventh half-move or later and is the last
\* entry of the history.
C22_CastleLogged ==
  /\ Accepted /\ last.n >= 7 /\ Turn(bb) = last.n + 1
  /\ LastMove(bb) \in {<<"0", "-", "0">>, <<"0", "-", "0", "-", "0">>}

\* C23: Move(src, dst) returns false, without a run-time panic and without
\* changing the board, for every pair of integers in which src or dst lies
\* outside 0..63.
C23_BeyondBoardReturnsFalse ==
  (last.op = "Move" /\ (last.src \notin Squares \/ last.dst \notin Squares))
    => (~last.ok /\ ~last.panic /\ bb = last.pre)

\* The last call was Move(king, dst) with the castling squares of a king on
\* its home square.
Castling == last.op = "Move" /\ IsCastleCall(last.pre, last.src, last.dst)

\* The squares strictly between king and rook.
Between(king, rook) == {sq \in Squares : (king < sq /\ sq < rook) \/ (rook < sq /\ sq < king)}

\* The number of pieces of colour c on the squares.
PieceCount(squares, c) == Cardinality({sq \in Squares : squares[sq] # 0 /\ ColorOf(squares[sq]) = c})

\* C29: castling is accepted only when every square strictly between the
\* king and the rook is empty and the original rook square holds the mover's
\* own rook, and an accepted or attempted castle never removes any piece from
\* the board: the number of pieces of each colour is unchanged.
C29_CastlingKeepsPieces ==
  Castling =>
    /\ last.ok => /\ \A sq \in Between(last.src, CastleRook(last.src, last.dst)) :
                        last.pre.board[sq] = 0
                  /\ last.pre.board[CastleRook(last.src, last.dst)]
                       = R + ColorOf(last.pre.board[last.src])
    /\ \A c \in {White, Black} : PieceCount(bb.board, c) = PieceCount(last.pre.board, c)

\* The side to move in the position b has a move the board accepts: some
\* piece of its colour may go somewhere without leaving its king attacked,
\* or its king may castle.
HasLegalMove(b) ==
  \/ \E src \in Squares :
       /\ b.board[src] # 0 /\ ColorOf(b.board[src]) = b.color
       /\ \E dst \in Squares : canMove(Recounted(b), src, dst).ok
  \/ \E king \in {4, 60}, rook \in {0, 7, 56, 63} :
       /\ b.board[king] = K + b.color /\ rook \in {king - 4, king + 3}
       /\ canCastle(Recounted(b), king, rook).ok

\* The status suffix of a history entry.
StatusSuffix(e) ==
  IF e # << >> /\ e[Len(e)] \in {"#", "+"} THEN <<e[Len(e)]>> ELSE << >>

\* C30: after every accepted half-move, castling included, check is true
\* exactly when the king of the new side to move is attacked, stalemate is
\* true exactly when that side has no legal move, and the history entry
\* appended carries "#", "+" or no suffix according to those two values.
C30_StatusMatchesPosition ==
  Accepted =>
    /\ bb.check = KingAttacked(bb, bb.color)
    /\ bb.stalemate = ~HasLegalMove(bb)
    /\ StatusSuffix(LastMove(bb)) =
         (IF KingAttacked(bb, bb.color)
          THEN (IF HasLegalMove(bb) THEN <<"+">> ELSE <<"#">>)
          ELSE << >>)

\* The last call was accepted as a castling: it has logged "0-0" or "0-0-0".
CastleAccepted ==
  /\ Accepted /\ Len(LastMove(bb)) >= 3
  /\ SubSeq(LastMove(bb), 1, 3) = <<"0", "-", "0">>

\* The castling was the long one.
CastledLong == Len(LastMove(bb)) >= 5 /\ SubSeq(LastMove(bb), 4, 5) = <<"-", "0">>

\* The home square of the king that castled: the source of Move, and for
\* MoveSAN the home square of the king of the side to move.
CastledKing ==
  IF last.op = "Move" THEN last.src ELSE IF last.pre.color = White THEN 4 ELSE 60

\* The squares and the moved bits after the king of pre on k has castled with
\* the rook on r: king on nk, rook on nr, both home squares empty.
CastledFrom(pre, post, k, r, nk, nr) ==
  /\ pre.board[k] \in {K + White, K + Black}
  /\ post.board = [sq \in Squares |->
                     IF sq = nk THEN pre.board[k]
                     ELSE IF sq = nr THEN R + ColorOf(pre.board[k])
                     ELSE IF sq \in {k, r} THEN 0
                     ELSE pre.board[sq]]
  /\ post.moved = pre.moved \cup {k, r}

\* C31: a successful castle moves the king two squares toward the rook, puts
\* the rook on the square the king crossed, empties both original squares,
\* sets the moved bits of both original squares, and leaves every other
\* square unchanged.
C31_CastleRelocatesKingAndRook ==
  CastleAccepted =>
    IF CastledLong
    THEN CastledFrom(last.pre, bb, CastledKing, CastledKing - 4, CastledKing - 2, CastledKing - 1)
    ELSE CastledFrom(last.pre, bb, CastledKing, CastledKing + 3, CastledKing + 2, CastledKing + 1)

\* After e4, e5, Nf3, Nc6, Bc4, Bc5, O-O the white king is on g1 and the rook
\* on f1, e1 and h1 are empty and recorded in moved.
C31_ItalianCastled ==
  /\ bb.hist = << <<"e", "4">>, <<"e", "5">>, <<"N", "f", "3">>, <<"N", "c", "6">>,
                  <<"B", "c", "4">>, <<"B", "c", "5">>, <<"0", "-", "0">> >>
  /\ last.op = "MoveSAN"
  /\ bb.board[6] = K + White /\ bb.board[5] = R + White
  /\ bb.board[4] = 0 /\ bb.board[7] = 0 /\ {4, 7} \subseteq bb.moved

\* The squares of rank 0 and rank 7.
EdgeRanks == (0 .. 7) \cup (56 .. 63)

\* C32: whenever an accepted move puts a pawn on rank 0 or rank 7 the pawn is
\* replaced by a queen of the same colour in the same call, so no reachable
\* position has a pawn on rank 0 or rank 7.
C32_PawnOnLastRankPromotes ==
  /\ \A sq \in EdgeRanks : PieceOf(bb.board[sq]) # P
  /\ (Accepted /\ last.op = "Move" /\ last.dst \in EdgeRanks
        /\ PieceOf(last.pre.board[last.src]) = P)
       => bb.board[last.dst] = Q + ColorOf(last.pre.board[last.src])

\* The white pawn on h7 has taken the knight on g8 and is a white queen.
C32_PromotedOnG8 ==
  /\ Accepted /\ last.op = "Move" /\ last.src = 55 /\ last.dst = 62
  /\ last.pre.board[55] = P + White /\ bb.board[62] = Q + White /\ bb.board[55] = 0

\* C37: in every state reachable from NewBoard() by any sequence of Move,
\* MoveSAN and Moves calls, accepted or rejected, the squares hold exactly
\* one White king and exactly one Black king.
C37_OneKingEach ==
  \A c \in {White, Black} : Cardinality({sq \in Squares : bb.board[sq] = K + c}) = 1

\* C38: Moves(src) is a pure query: for every reachable position and every
\* src, all fields of the board (squares, occupied, moved, side to move, ep
\* target, check, stalemate, history) are the same after the call as before.
C38_MovesLeavesBoard == last.op = "Moves" => bb = last.pre

(***************************************************************************)
(* Part II.  Package main (chess.go): the 0x88 Board used by the game      *)
(* runner.  Square p of the 8x8 board is file + 16 * rank; status is the   *)
(* set of its flags.                                                       *)
(***************************************************************************)

Empty == 0
WhitePawn == 1
WhiteKnight == 2
WhiteKing == 3
WhiteBishop == 5
WhiteRook == 6
WhiteQueen == 7
BlackPawn == 9
BlackKnight == 10
BlackKing == 11
BlackBishop == 13
BlackRook == 14
BlackQueen == 15

CheckFlag == 1
StalemateFlag == 2
BlackFlag == 8
castleKW == 16
castleQW == 32
castleKB == 64
castleQB == 128

Cells == 0 .. 127

\* Pos(file, rank)
Pos(file, rank) == file + rank * 16

\* p&0x88 == 0, for the values of p that move and slide compute
OnBoard(p) == p \in Cells /\ p % 16 < 8

\* piece&BlackFlag, and status&BlackFlag
PieceSide(piece) == IF piece >= 8 THEN BlackFlag ELSE 0
StatusSide(status) == IF BlackFlag \in status THEN BlackFlag ELSE 0

BackRank88 == <<WhiteRook, WhiteKnight, WhiteBishop, WhiteQueen,
                WhiteKing, WhiteBishop, WhiteKnight, WhiteRook>>

\* NewBoard() of chess.go
NewBoard88 ==
  [ board  |-> [p \in Cells |->
                  IF p < 8 THEN BackRank88[p + 1]
                  ELSE IF p \in 16 .. 23 THEN WhitePawn
                  ELSE IF p \in 96 .. 103 THEN BlackPawn
                  ELSE IF p \in 112 .. 119 THEN BackRank88[p - 111] + BlackFlag
                  ELSE Empty],
    status |-> {castleKB, castleKW, castleQB, castleQW},
    hist   |-> << >> ]

\* slide(from, to, pattern): to is reached from from in steps of pattern over
\* empty squares of the board.
slide(t, from, to, pattern) ==
  \E k \in 1 .. 7 :
    /\ from + k * pattern = to
    /\ OnBoard(to)
    /\ \A j \in 1 .. (k - 1) : OnBoard(from + j * pattern) /\ t.board[from + j * pattern] = Empty

\* move: "only move existing pieces and do not capture own pieces"
movable(t, piece, victim) ==
  ~ ( \/ piece = Empty
      \/ StatusSide(t.status) # PieceSide(piece)
      \/ (victim # Empty /\ PieceSide(piece) = PieceSide(victim)) )

\* move: the switch over the movement patterns; the case taken is "plain"
\* for the first six, the castling log and rook for the next four, "none"
\* for default.
moveCase(t, a, b, piece, victim, d) ==
  IF piece = WhitePawn /\ ( \/ (d = 16 /\ victim = 0)
                            \/ (a \div 16 = 1 /\ d = 32 /\ victim = 0)
                            \/ (victim # 0 /\ (d = 15 \/ d = 17)) )
  THEN "plain"
  ELSE IF piece = BlackPawn /\ ( \/ (d = -16 /\ victim = 0)
                                 \/ (a \div 16 = 6 /\ d = -32 /\ victim = 0)
                                 \/ (victim # 0 /\ (d = -15 \/ d = -17)) )
  THEN "plain"
  ELSE IF piece % 8 = WhiteKing /\ (d * d = 1 \/ (d * d >= 15 * 15 /\ d * d <= 17 * 17))
  THEN "plain"
  ELSE IF piece % 8 = WhiteKnight /\ d * d \in {18 * 18, 14 * 14, 31 * 31, 33 * 33}
  THEN "plain"
  ELSE IF /\ piece % 8 \in {6, 7}
          /\ (a \div 16 = b \div 16 \/ a % 8 = b % 8)
          /\ (slide(t, a, b, 1) \/ slide(t, a, b, -1) \/ slide(t, a, b, 16) \/ slide(t, a, b, -16))
  THEN "plain"
  ELSE IF /\ piece % 8 \in {5, 7}
          /\ ((a \div 16) - (b \div 16)) * ((a \div 16) - (b \div 16))
               = ((a % 8) - (b % 8)) * ((a % 8) - (b % 8))
          /\ (slide(t, a, b, 15) \/ slide(t, a, b, 17) \/ slide(t, a, b, -15) \/ slide(t, a, b, -17))
  THEN "plain"
  ELSE IF /\ piece = WhiteKing /\ a = 4 /\ b = 2
          /\ castleQW \in t.status /\ CheckFlag \notin t.status /\ slide(t, 4, 0, -1)
  THEN "QW"
  ELSE IF /\ piece = WhiteKing /\ a = 4 /\ b = 6
          /\ castleKW \in t.status /\ CheckFlag \notin t.status /\ slide(t, 4, 7, 1)
  THEN "KW"
  ELSE IF /\ piece = BlackKing /\ a = 116 /\ b = 114
          /\ castleQB \in t.status /\ CheckFlag \notin t.status /\ slide(t, 116, 112, -1)
  THEN "QB"
  ELSE IF /\ piece = BlackKing /\ a = 116 /\ b = 118
          /\ castleKB \in t.status /\ CheckFlag \notin t.status /\ slide(t, 116, 119, 1)
  THEN "KB"
  ELSE "none"

\* move(a, b, false, false): the guard and the pattern, nothing applied
pattern(t, a, b) ==
  /\ movable(t, t.board[a], t.board[b])
  /\ moveCase(t, a, b, t.board[a], t.board[b], b - a) # "none"

\* check: the first square holding the king of the side to move, else 0
kingPos(ks) == IF ks = {} THEN 0 ELSE Min(ks)

\* check: with the side flag flipped, some piece may move onto end
checkAt(t, end) == \E p \in Cells : OnBoard(p) /\ pattern(t, p, end)

\* check(): the side flag is flipped for the loop and flipped back
check(t) ==
  checkAt([t EXCEPT !.status = IF BlackFlag \in @ THEN @ \ {BlackFlag} ELSE @ \cup {BlackFlag}],
          kingPos({p \in Cells : t.board[p] = WhiteKing + StatusSide(t.status)}))

\* move: t.board[b], t.board[a] = t.board[a], 0
applyMove(t, a, b) == [t EXCEPT !.board = [@ EXCEPT ![b] = t.board[a], ![a] = 0]]

\* move(a, b, false, check): nothing is executed and the deferred function
\* restores the backup, which was taken from the unchanged board.
moveTest(t, a, b, chk) ==
  /\ pattern(t, a, b)
  /\ chk => ~check(applyMove(t, a, b))

\* stalemate()
stalemate(t) ==
  \A from \in Cells :
    PieceSide(t.board[from]) = StatusSide(t.status) =>
      \A to \in Cells : ~moveTest(t, from, to, TRUE)

\* formatMove: the letter of the piece on a, none for a pawn
PieceChr88(x) == <<"", "", "N", "K", "", "B", "R", "Q">>[x + 1]

\* formatMove: the squares, other than a, holding a piece like the one on a
\* that may move to b as well
rivals(t, a, b) == {p \in Cells : t.board[p] = t.board[a] /\ p # a /\ pattern(t, p, b)}

\* formatMove, given the rivals: file, rank, capture mark and destination
formatSquares(t, a, b, others) ==
  (IF (\E p \in others : p % 8 # a % 8) \/ (t.board[a] % 8 = WhitePawn /\ t.board[b] # 0)
   THEN <<FileChr(a % 8)>> ELSE << >>)
  \o (IF \E p \in others : p % 8 = a % 8 THEN <<RankChr(a \div 16)>> ELSE << >>)
  \o (IF t.board[b] # 0 THEN <<"x">> ELSE << >>)
  \o <<FileChr(b % 8), RankChr(b \div 16)>>

\* formatMove(a, b)
formatMove88(t, a, b) ==
  (IF t.board[a] % 8 = WhitePawn THEN << >> ELSE <<PieceChr88(t.board[a] % 8)>>)
  \o formatSquares(t, a, b, rivals(t, a, b))

\* formatStatus()
formatStatus88(t) ==
  IF {CheckFlag, StalemateFlag} \subseteq t.status THEN <<"#">>
  ELSE IF CheckFlag \in t.status THEN <<"+">>
  ELSE << >>

\* move: a castling case, with exec, relocates the rook at once
castleRook(t, kase) ==
  IF kase = "QW" THEN [t EXCEPT !.board = [@ EXCEPT ![3] = WhiteRook, ![0] = 0]]
  ELSE IF kase = "KW" THEN [t EXCEPT !.board = [@ EXCEPT ![5] = WhiteRook, ![7] = 0]]
  ELSE IF kase = "QB" THEN [t EXCEPT !.board = [@ EXCEPT ![115] = BlackRook, ![112] = 0]]
  ELSE IF kase = "KB" THEN [t EXCEPT !.board = [@ EXCEPT ![117] = BlackRook, ![119] = 0]]
  ELSE t

\* move: the log of a castling case
castleLog(kase) ==
  IF kase \in {"QW", "QB"} THEN <<"0", "-", "0", "-", "0">> ELSE <<"0", "-", "0">>

\* move: the castling rights lost by a move from a ("switch a")
lostRights(a) ==
  IF a = 0 THEN {castleQW}
  ELSE IF a = 4 THEN {castleQW, castleKW}
  ELSE IF a = 7 THEN {castleKW}
  ELSE IF a = 112 THEN {castleQB}
  ELSE IF a = 116 THEN {castleQB, castleKB}
  ELSE IF a = 119 THEN {castleKB}
  ELSE {}

\* move: t.status ^= BlackFlag; t.status &^= CheckFlag | StalemateFlag; switch a
turnStatus(status, a) ==
  ((IF BlackFlag \in status THEN status \ {BlackFlag} ELSE status \cup {BlackFlag})
     \ {CheckFlag, StalemateFlag}) \ lostRights(a)

\* move: if t.check() { t.status |= CheckFlag }
flagCheck(t) == IF check(t) THEN [t EXCEPT !.status = @ \cup {CheckFlag}] ELSE t

\* move: if t.stalemate() { t.status |= StalemateFlag }
flagStalemate(t) == IF stalemate(t) THEN [t EXCEPT !.status = @ \cup {StalemateFlag}] ELSE t

\* move: log = log + t.formatStatus(); t.hist = append(t.hist, log)
logMove(t, log) == [t EXCEPT !.hist = Append(@, log \o formatStatus88(t))]

\* move, exec: the part after the move has been applied and found valid
commitMove(t, a, log) ==
  logMove(flagStalemate(flagCheck([t EXCEPT !.status = turnStatus(@, a)])), log)

\* move, exec: backup is the board when "backup := *t" is executed, which is
\* what the deferred function restores when the move is not valid
finishMove(backup, a, b, chk, log) ==
  IF chk /\ check(applyMove(backup, a, b)) THEN [t |-> backup, ok |-> FALSE]
  ELSE [t |-> commitMove(applyMove(backup, a, b), a, log), ok |-> TRUE]

\* move(a, b, true, check), once the pattern has selected kase
execMove(t, a, b, chk, kase) ==
  finishMove(castleRook(t, kase), a, b, chk,
             IF kase = "plain" THEN formatMove88(t, a, b) ELSE castleLog(kase))

\* move(a, b, exec, check); returns the board the call leaves, and valid
move(t, a, b, exec, chk) ==
  IF ~pattern(t, a, b) THEN [t |-> t, ok |-> FALSE]
  ELSE IF ~exec THEN [t |-> t, ok |-> moveTest(t, a, b, chk)]
  ELSE execMove(t, a, b, chk, moveCase(t, a, b, t.board[a], t.board[b], b - a))

\* Move(ax, ay, bx, by)
Move88(t, ax, ay, bx, by) ==
  IF ax < 0 \/ ax > 7 \/ ay < 0 \/ ay > 7 \/ bx < 0 \/ bx > 7 \/ by < 0 \/ by > 7
  THEN [t |-> t, ok |-> FALSE]
  ELSE move(t, Pos(ax, ay), Pos(bx, by), TRUE, TRUE)

\* White()
White88(t) == BlackFlag \notin t.status

\* Turn()
Turn88(t) == (Len(t.hist) \div 2) + 1

\* LastMove()
LastMove88(t) == IF Len(t.hist) = 0 THEN << >> ELSE t.hist[Len(t.hist)]

\* Moves(ax, ay): the legal destinations of the piece on (ax, ay) for the
\* side to move, as the set of their squares; the board is left alone.
Moves88(t, ax, ay) ==
  {b \in Cells : OnBoard(b) /\ moveTest(t, Pos(ax, ay), b, TRUE)}

\* MoveSAN: the upper-case letters, and the digits a rank may be written with
UpperChars == {"A", "B", "C", "D", "E", "F", "G", "H", "I", "J", "K", "L", "M",
               "N", "O", "P", "Q", "R", "S", "T", "U", "V", "W", "X", "Y", "Z"}
DigitChars == {"1", "2", "3", "4", "5", "6", "7", "8", "9"}
DigitIdx(c) == CHOOSE r \in 0 .. 8 : <<"1", "2", "3", "4", "5", "6", "7", "8", "9">>[r + 1] = c

\* MoveSAN: the piece named by the letter c
sanPiece88(c) ==
  IF c = "K" THEN WhiteKing ELSE IF c = "Q" THEN WhiteQueen ELSE IF c = "B" THEN WhiteBishop
  ELSE IF c = "N" THEN WhiteKnight ELSE WhiteRook

Refused88(t) == [t |-> t, ok |-> FALSE]

\* MoveSAN: the loop over p, which leaves in a the last square that holds
\* the piece, fits the given file or rank and may move to b; a keeps
\* Pos(ax, ay) when there is none.
sanFound(t, piece, ax, ay, b) ==
  {p \in Cells : /\ t.board[p] = piece
                 /\ (ax < 0 \/ p % 8 = ax)
                 /\ (ay < 0 \/ p \div 16 = ay)
                 /\ pattern(t, p, b)}

sanLast(found, ax, ay) ==
  IF (ax < 0 \/ ay < 0) /\ found # {} THEN CHOOSE p \in found : \A q \in found : q <= p
  ELSE Pos(ax, ay)

\* MoveSAN: "if a < 0 { return false }; return t.move(a, b, true, true)".
\* With the rank written as 9, a lies beyond the board array and the call
\* panics; nothing is accepted then.
sanExec(t, a, b) ==
  IF a < 0 \/ a > 127 THEN Refused88(t) ELSE move(t, a, b, TRUE, TRUE)

\* MoveSAN: what is left after the file and the rank of the origin
sanRest(t, piece, b, ax, ay, rest) ==
  IF Len(rest) > 0 THEN Refused88(t)
  ELSE sanExec(t, sanLast(sanFound(t, piece, ax, ay, b), ax, ay), b)

\* MoveSAN: the rank of the origin, if given
sanRank(t, piece, b, ax, rest) ==
  IF Len(rest) > 0 /\ rest[1] \in DigitChars
  THEN sanRest(t, piece, b, ax, DigitIdx(rest[1]), Tail(rest))
  ELSE sanRest(t, piece, b, ax, -1, rest)

\* MoveSAN: the file of the origin, if given
sanFile(t, piece, b, rest) ==
  IF Len(rest) > 0 /\ rest[1] \in FileChars
  THEN sanRank(t, piece, b, FileIdx(rest[1]), Tail(rest))
  ELSE sanRank(t, piece, b, -1, rest)

\* MoveSAN: the destination, the last two characters of san
sanDest(t, piece, san) ==
  IF Len(san) < 2 \/ san[Len(san) - 1] \notin FileChars \/ san[Len(san)] \notin RankChars
  THEN Refused88(t)
  ELSE sanFile(t, piece + StatusSide(t.status),
               Pos(FileIdx(san[Len(san) - 1]), RankIdx(san[Len(san)])),
               TrimRight(SubSeq(san, 1, Len(san) - 2), {"-", "x"}))

\* MoveSAN: the letter of the piece, if given
sanLetter(t, san) ==
  IF Len(san) > 0 /\ san[1] \in UpperChars
  THEN (IF san[1] \in {"K", "Q", "B", "N", "R"} THEN sanDest(t, sanPiece88(san[1]), Tail(san))
        ELSE Refused88(t))
  ELSE sanDest(t, WhitePawn, san)

\* MoveSAN: the special moves (castling), then the rest
sanSwitch(t, san) ==
  IF san = <<"0", "-", "0", "-", "0">>
  THEN (IF White88(t) THEN move(t, 4, 2, TRUE, TRUE) ELSE move(t, 116, 114, TRUE, TRUE))
  ELSE IF san = <<"0", "-", "0">>
  THEN (IF White88(t) THEN move(t, 4, 6, TRUE, TRUE) ELSE move(t, 116, 118, TRUE, TRUE))
  ELSE sanLetter(t, san)

\* MoveSAN(san)
MoveSAN88(t, san) == sanSwitch(t, TrimRight(san, {"?", "!", "+", "#"}))

\* testGame: strings.Trim(mv, "!?")
RECURSIVE TrimLeft(_, _)
TrimLeft(text, cut) ==
  IF Len(text) > 0 /\ text[1] \in cut THEN TrimLeft(Tail(text), cut) ELSE text
Trim(text, cut) == TrimLeft(TrimRight(text, cut), cut)

MaxFreeSAN == 1

\* Games recorded in the notation of board_test.go.
GameFoolsMate ==         \* TestFoolsMate
  << T2("e","4"), T2("g","5"), T2("d","4"), T2("f","6"), T4("Q","h","5","#") >>
GameImmortalLosing ==    \* TestImmortalLosingGame, up to 8... h6
  << T2("d","4"), T2("f","5"), T2("g","3"), T2("g","6"), T3("B","g","2"), T3("B","g","7"),
     T3("N","c","3"), T3("N","f","6"), T3("B","g","5"), T3("N","c","6"), T3("Q","d","2"),
     T2("d","6"), T2("h","4"), T2("e","6"), <<"0", "-", "0", "-", "0">>, T2("h","6") >>
GameKasparov ==          \* TestKasparovsImmortal, up to 7. Nge2 Nbd7
  << T2("e","4"), T2("d","6"), T2("d","4"), T3("N","f","6"), T3("N","c","3"), T2("g","6"),
     T3("B","e","3"), T3("B","g","7"), T3("Q","d","2"), T2("c","6"), T2("f","3"), T2("b","5"),
     T4("N","g","e","2"), T4("N","b","d","7") >>
GameKingOnTheEdge ==     \* the white king walks to h4 and is mated there
  << T2("f","3"), T2("e","6"), T3("K","f","2"), T3("N","e","7"), T3("K","g","3"), T2("g","6"),
     T3("K","h","4"), T2("a","6"), T2("g","4"), T2("a","5"), T2("h","3"), T3("N","f","5") >>
GameKnightOnE2 ==        \* the black knight takes on e2 and attacks g1
  << T3("N","f","3"), T3("N","c","6"), T2("g","3"), T3("N","d","4"), T3("B","g","2"),
     T4("N","x","e","2") >>
GameRookTaken ==         \* the black bishop takes the rook on h1 and stays there
  << T2("g","4"), T2("b","6"), T3("B","h","3"), T3("B","b","7"), T3("N","f","3"),
     T4("B","x","f","3"), T2("a","3"), T4("B","x","h","1") >>
Games88 == {GameFoolsMate, GameImmortalLosing, GameKasparov, GameKingOnTheEdge, GameKnightOnE2,
            GameRookTaken}

\* Texts tried by the arbitrary MoveSAN calls.
FreeTexts88 ==
  { T2("e","4"), T3("e","4","!"), T4("e","2","e","4"), <<"e", "2", "-", "e", "4">>,
    T3("N","f","3"), T4("N","g","f","3"), <<"N", "g", "1", "f", "3">>, T4("N","f","3","+"),
    T3("N","d","2"), T3("Q","h","5"), T4("e","x","d","5"), T4("f","x","e","4"),
    <<"0", "-", "0">>, <<"O", "-", "O">>, T4("e","9","e","4"), T2("z","z"), << >> }

TBInit ==
  /\ tb = NewBoard88
  /\ tbTrail = << >>
  /\ tbFree = 0
  /\ tbLast = [op |-> "NewBoard", text |-> << >>, ok |-> TRUE, pre |-> NewBoard88]

\* testGame: the next move of a recorded game, b.MoveSAN(mv).
TestGameStep ==
  /\ tbFree = 0
  /\ \E g \in Games88 :
       /\ Len(g) > Len(tbTrail)
       /\ SubSeq(g, 1, Len(tbTrail)) = tbTrail
       /\ tb' = MoveSAN88(tb, g[Len(tbTrail) + 1]).t
       /\ tbLast' = [op |-> "MoveSAN", text |-> g[Len(tbTrail) + 1],
                     ok |-> MoveSAN88(tb, g[Len(tbTrail) + 1]).ok, pre |-> tb]
       /\ tbTrail' = Append(tbTrail, g[Len(tbTrail) + 1])
  /\ UNCHANGED <<tbFree, bbvars, playvars, matchvars>>

\* An arbitrary call MoveSAN(text).
CallMoveSAN88 ==
  /\ tbFree < MaxFreeSAN
  /\ \E text \in FreeTexts88 :
       /\ tb' = MoveSAN88(tb, text).t
       /\ tbLast' = [op |-> "MoveSAN", text |-> text, ok |-> MoveSAN88(tb, text).ok, pre |-> tb]
  /\ tbFree' = tbFree + 1
  /\ UNCHANGED <<tbTrail, bbvars, playvars, matchvars>>

\* An arbitrary call Move(ax, ay, bx, by).
CallMove88 ==
  /\ tbFree < MaxFreeSAN
  /\ \E ax \in 0 .. 7, ay \in 0 .. 7, bx \in 0 .. 7, by \in 0 .. 7 :
       /\ tb' = Move88(tb, ax, ay, bx, by).t
       /\ tbLast' = [op |-> "Move", text |-> << >>, ok |-> Move88(tb, ax, ay, bx, by).ok,
                     pre |-> tb]
  /\ tbFree' = tbFree + 1
  /\ UNCHANGED <<tbTrail, bbvars, playvars, matchvars>>

TBNext == TestGameStep \/ CallMoveSAN88 \/ CallMove88

(***************************************************************************)
(* Properties of the 0x88 Board.                                           *)
(***************************************************************************)

\* C14: every string that MoveSAN accepts leaves LastMove() equal to that
\* string with its '!' and '?' annotations removed, the '+' / '#' suffix
\* being the one the board computes: apart from that suffix, the history
\* entry is the text.
C14_AcceptedTextIsLogged ==
  (tbLast.op = "MoveSAN" /\ tbLast.ok) =>
    TrimRight(LastMove88(tb), {"+", "#"}) = TrimRight(Trim(tbLast.text, {"!", "?"}), {"+", "#"})

\* The side to move has a legal move to a square of the 8x8 board.
HasMove88(t) ==
  \E a \in Cells, b \in Cells : OnBoard(a) /\ OnBoard(b) /\ moveTest(t, a, b, TRUE)

\* The suffix of the last history entry.
Suffix88(t) ==
  IF LastMove88(t) = << >> THEN ""
  ELSE IF LastMove88(t)[Len(LastMove88(t))] \in {"#", "+"} THEN LastMove88(t)[Len(LastMove88(t))]
  ELSE ""

\* C15: after every accepted half-move the history entry ends with '#'
\* exactly when the new side to move is in check and has no legal move to any
\* square of the 8x8 board, with '+' exactly when it is in check and has such
\* a move, and carries no suffix otherwise.
C15_SuffixTellsCheckAndMate ==
  (tbLast.op \in {"MoveSAN", "Move"} /\ tbLast.ok) =>
    Suffix88(tb) = (IF ~check(tb) THEN "" ELSE IF HasMove88(tb) THEN "+" ELSE "#")

\* C33: whenever a call of Move or MoveSAN is refused (move has returned
\* false, after any number of trial calls with exec=false), the whole board
\* (placement, status flags, castling rights, history) is as it was before
\* the call; this includes castling attempts refused because the king would
\* stand in check on its destination square.
C33_RefusedMoveRestoresBoard ==
  (tbLast.op \in {"Move", "MoveSAN"} /\ ~tbLast.ok) => tb = tbLast.pre

\* The number of pieces of the side (0 or BlackFlag) on the 8x8 board.
PieceCount88(t, side) ==
  Cardinality({p \in Cells : OnBoard(p) /\ t.board[p] # Empty /\ PieceSide(t.board[p]) = side})

\* The last call was accepted as a castling.
CastleAccepted88 ==
  /\ tbLast.op \in {"Move", "MoveSAN"} /\ tbLast.ok
  /\ Len(LastMove88(tb)) >= 3 /\ SubSeq(LastMove88(tb), 1, 3) = <<"0", "-", "0">>

\* The corner the castling just logged was made with, and its own rook.
CastleCorner88 ==
  (IF BlackFlag \in tbLast.pre.status THEN 112 ELSE 0)
    + (IF Len(LastMove88(tb)) >= 5 /\ LastMove88(tb)[4] = "-" THEN 0 ELSE 7)

OwnRook88 == IF BlackFlag \in tbLast.pre.status THEN BlackRook ELSE WhiteRook

\* C39: castling is accepted only while the mover's own rook still stands on
\* the corresponding corner square, so that no accepted move increases the
\* number of pieces of either colour.
C39_CastlingNeedsOwnRook ==
  /\ CastleAccepted88 => tbLast.pre.board[CastleCorner88] = OwnRook88
  /\ (tbLast.op \in {"Move", "MoveSAN"} /\ tbLast.ok)
       => \A side \in {0, BlackFlag} :
            PieceCount88(tb, side) <= PieceCount88(tbLast.pre, side)

(***************************************************************************)
(* Part III.  Package main (main.go): the game runner play(a, b), with the *)
(* two players' handleWS tasks draining their out queues.  Time is counted *)
(* in ticks; it is let pass only while the runner is blocked.              *)
(***************************************************************************)

Players == {"p1", "p2"}
Other(p) == IF p = "p1" THEN "p2" ELSE "p1"

TimeLimit == 3      \* *timeLimit, in ticks of 5 ms
MinRemaining == 2   \* 10 * time.Millisecond, in ticks
MaxNow == 3         \* the clock stops here
OutCap == 1         \* make(chan Message, 1)

\* Message{Cmd: cmd}: every other field has its zero value
Message(cmd) ==
  [cmd |-> cmd, turn |-> 0, ax |-> 0, ay |-> 0, bx |-> 0, by |-> 0, white |-> FALSE,
   history |-> << >>, remainingA |-> 0, remainingB |-> 0, text |-> "", moves |-> {}]

\* A frame a client may send.
Frame(cmd, turn, isWhite, ax, ay, bx, by) ==
  [Message(cmd) EXCEPT !.turn = turn, !.white = isWhite,
                       !.ax = ax, !.ay = ay, !.bx = bx, !.by = by]

\* The frames the clients send: the half-moves of a game in which the black
\* knight reaches e2 (Nf3 Nc6 g3 Nd4 Bg2 Nxe2), White's castling after it,
\* and frames with a wrong turn, a wrong colour, a move the board refuses,
\* an unknown command, and select requests.
Frames ==
  { Frame("move", 1, TRUE, 6, 0, 5, 2),  Frame("move", 1, FALSE, 1, 7, 2, 5),
    Frame("move", 2, TRUE, 6, 1, 6, 2),  Frame("move", 2, FALSE, 2, 5, 3, 3),
    Frame("move", 3, TRUE, 5, 0, 6, 1),  Frame("move", 3, FALSE, 3, 3, 4, 1),
    Frame("move", 4, TRUE, 4, 0, 6, 0),
    Frame("move", 2, TRUE, 6, 0, 5, 2),  Frame("move", 1, FALSE, 6, 0, 5, 2),
    Frame("move", 1, TRUE, 0, 0, 0, 4),  Frame("hello", 1, TRUE, 0, 0, 0, 0),
    Frame("select", 1, TRUE, 6, 0, 0, 0), Frame("select", 4, TRUE, 4, 0, 0, 0),
    Frame("select", 2, TRUE, 6, 0, 0, 0) }

FirstTurnFrames == {f \in Frames : f.turn = 1}

\* Player.String()
ColourName(isWhite) == IF isWhite THEN "White" ELSE "Black"

\* play: Message{Cmd: "start", White: p.White, Turn: board.Turn(),
\*               RemainingA: a.Remaining, RemainingB: b.Remaining}
startFrame(isWhite, turn, remA, remB) ==
  [Message("start") EXCEPT !.white = isWhite, !.turn = turn,
                           !.remainingA = remA, !.remainingB = remB]

\* play: fmt.Sprintf("Out of time: %v wins!", b)
timeoutFrame(winnerIsWhite) ==
  [Message("msg") EXCEPT !.text = IF winnerIsWhite THEN "Out of time: White wins!"
                                  ELSE "Out of time: Black wins!"]

\* play: Message{Cmd: "msg", Text: "Opponent quit... Reload?"}
quitFrame == [Message("msg") EXCEPT !.text = "Opponent quit... Reload?"]

\* play: a.Remaining -= now.Sub(start), not below 10ms
deduct(rem, elapsed) ==
  IF rem - elapsed <= MinRemaining THEN MinRemaining ELSE rem - elapsed

\* An echo whose clocks are not exchanged for a black mover.
echoFrameUnswapped(f, history, aWhite, remA, remB) ==
  [f EXCEPT !.history = history, !.remainingA = remA, !.remainingB = remB]

\* play: msg.History = board.LastMove(); msg.RemainingA, msg.RemainingB =
\* a.Remaining, b.Remaining, exchanged if !a.White
echoFrame(f, history, aWhite, remA, remB) ==
  [f EXCEPT !.history = history,
            !.remainingA = IF aWhite THEN remA ELSE remB,
            !.remainingB = IF aWhite THEN remB ELSE remA]

\* What the client of a player has received so far: nothing, the start
\* frame and n move echoes, or the terminal frame after them; bad when a frame
\* has arrived out of this order, failed when a Send to it has failed.
Ply(f) == 2 * (f.turn - 1) + (IF f.white THEN 1 ELSE 2)

Deliver(g, f) ==
  IF g.phase = "none" /\ f.cmd = "start" THEN [phase |-> "started", n |-> 0]
  ELSE IF g.phase = "started" /\ f.cmd = "move" /\ Ply(f) = g.n + 1
  THEN [phase |-> "started", n |-> g.n + 1]
  ELSE IF g.phase = "started" /\ f.cmd = "select" THEN g
  ELSE IF g.phase = "started" /\ f.cmd = "msg" THEN [phase |-> "ended", n |-> g.n]
  ELSE [phase |-> "bad", n |-> g.n]

PlayInit ==
  /\ board = NewBoard88
  /\ got = [p \in Players |-> [phase |-> "none", n |-> 0]]
  /\ mover = "p1"
  /\ white = [p \in Players |-> FALSE]
  /\ remaining = [p \in Players |-> 0]
  /\ start = 0
  /\ now = 0
  /\ pc = "begin"
  /\ msg = Message("")
  /\ out = [p \in Players |-> << >>]
  /\ closed = [p \in Players |-> FALSE]
  /\ sender = [p \in Players |-> "running"]
  /\ conn = [p \in Players |-> "open"]
  /\ foreign = 0
  /\ charge = [to |-> "", kind |-> "none", foreign |-> 0]
  /\ lastEnq = [to |-> "", msg |-> Message(""), remaining |-> [p \in Players |-> 0],
                white |-> [p \in Players |-> FALSE]]
  /\ lastRead = [kind |-> "none", bit |-> 0]

\* p.Out <- m: blocks while the queue is full
Enqueue(p, m) ==
  /\ Len(out[p]) < OutCap
  /\ out' = [out EXCEPT ![p] = Append(@, m)]
  /\ lastEnq' = [to |-> p, msg |-> m, remaining |-> remaining, white |-> white]

\* play: board := NewBoard(); the random exchange of a and b; a.White = true;
\* both Remaining = *timeLimit
PlayBeginWith(limit) ==
  /\ pc = "begin"
  /\ \E first \in Players :
       /\ mover' = first
       /\ white' = [white EXCEPT ![first] = TRUE]
  /\ board' = NewBoard88
  /\ remaining' = [p \in Players |-> limit]
  /\ pc' = "startA"
  /\ UNCHANGED <<bbvars, matchvars, tbvars, got, start, now, msg, out, closed, sender, conn, foreign, charge, lastEnq, lastRead>>

PlayBegin == PlayBeginWith(TimeLimit)

\* play, in a server started with another time limit (flag -time)
PlayBeginOther == \E limit \in 0 .. TimeLimit : PlayBeginWith(limit)

\* play: a.Out <- Message{Cmd: "start", ...}
SendStartA ==
  /\ pc = "startA"
  /\ Enqueue(mover, startFrame(white[mover], Turn88(board),
                               remaining[mover], remaining[Other(mover)]))
  /\ pc' = "startB"
  /\ UNCHANGED <<bbvars, matchvars, tbvars, got, board, mover, white, remaining, start, now, msg, closed, sender, conn,
                 foreign, charge, lastRead>>

\* play: b.Out <- Message{Cmd: "start", ...}; start := time.Now()
SendStartB ==
  /\ pc = "startB"
  /\ Enqueue(Other(mover), startFrame(white[Other(mover)], Turn88(board),
                                      remaining[mover], remaining[Other(mover)]))
  /\ start' = now
  /\ foreign' = 0
  /\ pc' = "receive"
  /\ UNCHANGED <<bbvars, matchvars, tbvars, got, board, mover, white, remaining, now, msg, closed, sender, conn,
                 charge, lastRead>>

\* HandleMove without the exchange of a and b after an accepted move.
HandleMoveSameMover(f, r) ==
  /\ board' = r.t
  /\ lastRead' = [kind |-> IF r.ok THEN "accepted" ELSE "rejected", bit |-> 1 - lastRead.bit]
  /\ IF r.ok
     THEN /\ remaining' = [remaining EXCEPT ![mover] = deduct(@, now - start)]
          /\ start' = now
          /\ msg' = echoFrame(f, LastMove88(r.t), white[mover],
                              deduct(remaining[mover], now - start), remaining[Other(mover)])
          /\ mover' = mover
          /\ pc' = "echoA"
          /\ charge' = [to |-> mover, kind |-> "move", foreign |-> foreign]
          /\ foreign' = 0
     ELSE UNCHANGED <<remaining, start, msg, mover, pc, charge, foreign>>
  /\ UNCHANGED <<white, now, out, closed, sender, conn, lastEnq>>

\* play: the frame f is a move for the current turn and colour, and r is what
\* board.Move returned for it
HandleMove(f, r) ==
  /\ board' = r.t
  /\ lastRead' = [kind |-> IF r.ok THEN "accepted" ELSE "rejected", bit |-> 1 - lastRead.bit]
  /\ IF r.ok
     THEN /\ remaining' = [remaining EXCEPT ![mover] = deduct(@, now - start)]
          /\ start' = now
          /\ msg' = echoFrame(f, LastMove88(r.t), white[mover],
                              deduct(remaining[mover], now - start), remaining[Other(mover)])
          /\ mover' = Other(mover)
          /\ pc' = "echoA"
          /\ charge' = [to |-> mover, kind |-> "move", foreign |-> foreign]
          /\ foreign' = 0
     ELSE UNCHANGED <<remaining, start, msg, mover, pc, charge, foreign>>
  /\ UNCHANGED <<white, now, out, closed, sender, conn, lastEnq>>

\* HandleSelect answering to the waiter.
HandleSelectToWaiter(f) ==
  /\ msg' = [f EXCEPT !.moves = Moves88(board, f.ax, f.ay)]
  /\ pc' = "reply"
  /\ mover' = Other(mover)
  /\ lastRead' = [kind |-> "select", bit |-> 1 - lastRead.bit]
  /\ UNCHANGED <<board, white, remaining, start, now, out, closed, sender, conn,
                 foreign, charge, lastEnq>>

\* play: the frame f is a select for the current turn and colour
HandleSelect(f) ==
  /\ msg' = [f EXCEPT !.moves = Moves88(board, f.ax, f.ay)]
  /\ pc' = "reply"
  /\ lastRead' = [kind |-> "select", bit |-> 1 - lastRead.bit]
  /\ UNCHANGED <<board, mover, white, remaining, start, now, out, closed, sender, conn,
                 foreign, charge, lastEnq>>

\* play: any other frame
HandleOther ==
  /\ lastRead' = [kind |-> "rejected", bit |-> 1 - lastRead.bit]
  /\ UNCHANGED <<board, mover, white, remaining, start, now, pc, msg, out, closed, sender,
                 conn, foreign, charge, lastEnq>>

\* play: websocket.JSON.Receive(a.Conn, &msg) returns a frame before the
\* deadline start.Add(a.Remaining), and the frame is handled
Receive(frames) ==
  /\ pc = "receive"
  /\ conn[mover] = "open"
  /\ now < start + remaining[mover]
  /\ \E f \in frames :
       IF f.cmd = "move" /\ f.turn = Turn88(board) /\ f.white = White88(board)
       THEN HandleMove(f, Move88(board, f.ax, f.ay, f.bx, f.by))
       ELSE IF f.cmd = "select" /\ f.turn = Turn88(board) /\ f.white = White88(board)
       THEN HandleSelect(f)
       ELSE HandleOther
  /\ UNCHANGED <<bbvars, matchvars, tbvars, got, got>>

\* play: Receive returns a timeout error
ReceiveTimeout ==
  /\ pc = "receive"
  /\ conn[mover] # "closed"
  /\ now >= start + remaining[mover]
  /\ remaining' = [remaining EXCEPT ![mover] = 0]
  /\ msg' = timeoutFrame(white[Other(mover)])
  /\ charge' = [to |-> mover, kind |-> "timeout", foreign |-> foreign]
  /\ pc' = "termB"
  /\ UNCHANGED <<bbvars, matchvars, tbvars, got, board, mover, white, start, now, out, closed, sender, conn, foreign,
                 lastEnq, lastRead>>

\* play: Receive returns another error
ReceiveError ==
  /\ pc = "receive"
  /\ conn[mover] # "open"
  /\ msg' = quitFrame
  /\ pc' = "termB"
  /\ UNCHANGED <<bbvars, matchvars, tbvars, got, board, mover, white, remaining, start, now, out, closed, sender, conn,
                 foreign, charge, lastEnq, lastRead>>

\* play: b.Out <- msg, of either error branch
SendTermB ==
  /\ pc = "termB"
  /\ Enqueue(Other(mover), msg)
  /\ pc' = "termA"
  /\ UNCHANGED <<bbvars, matchvars, tbvars, got, board, mover, white, remaining, start, now, msg, closed, sender, conn,
                 foreign, charge, lastRead>>

\* play: a.Out <- msg, of either error branch; break
SendTermA ==
  /\ pc = "termA"
  /\ Enqueue(mover, msg)
  /\ pc' = "close"
  /\ UNCHANGED <<bbvars, matchvars, tbvars, got, board, mover, white, remaining, start, now, msg, closed, sender, conn,
                 foreign, charge, lastRead>>

\* play: the deferred close(a.Out); close(b.Out)
PlayExit ==
  /\ pc = "close"
  /\ closed' = [p \in Players |-> TRUE]
  /\ pc' = "done"
  /\ UNCHANGED <<bbvars, matchvars, tbvars, got, board, mover, white, remaining, start, now, msg, out, sender, conn,
                 foreign, charge, lastEnq, lastRead>>

\* play: a.Out <- msg after an accepted move (a is the new mover)
SendEchoA ==
  /\ pc = "echoA"
  /\ Enqueue(mover, msg)
  /\ pc' = "echoB"
  /\ UNCHANGED <<bbvars, matchvars, tbvars, got, board, mover, white, remaining, start, now, msg, closed, sender, conn,
                 foreign, charge, lastRead>>

\* play: b.Out <- msg after an accepted move
SendEchoB ==
  /\ pc = "echoB"
  /\ Enqueue(Other(mover), msg)
  /\ pc' = "receive"
  /\ UNCHANGED <<bbvars, matchvars, tbvars, got, board, mover, white, remaining, start, now, msg, closed, sender, conn,
                 foreign, charge, lastRead>>

\* play: a.Out <- msg, the reply to a select
SendReply ==
  /\ pc = "reply"
  /\ Enqueue(mover, msg)
  /\ pc' = "receive"
  /\ UNCHANGED <<bbvars, matchvars, tbvars, got, board, mover, white, remaining, start, now, msg, closed, sender, conn,
                 foreign, charge, lastRead>>

\* handleWS: one round of "for msg := range out", websocket.JSON.Send succeeding
SenderSend(p) ==
  /\ sender[p] = "running"
  /\ out[p] # << >>
  /\ out' = [out EXCEPT ![p] = Tail(@)]
  /\ got' = [got EXCEPT ![p] = Deliver(@, Head(out[p]))]
  /\ UNCHANGED <<bbvars, matchvars, tbvars, board, mover, white, remaining, start, now, pc, msg, closed, sender, conn,
                 foreign, charge, lastEnq, lastRead>>

\* handleWS: websocket.JSON.Send fails; the handler returns and its deferred
\* function closes the connection
SenderFail(p) ==
  /\ sender[p] = "running"
  /\ out[p] # << >>
  /\ out' = [out EXCEPT ![p] = Tail(@)]
  /\ sender' = [sender EXCEPT ![p] = "done"]
  /\ conn' = [conn EXCEPT ![p] = "closed"]
  /\ got' = [got EXCEPT ![p].phase = "failed"]
  /\ UNCHANGED <<bbvars, matchvars, tbvars, board, mover, white, remaining, start, now, pc, msg, closed,
                 foreign, charge, lastEnq, lastRead>>

\* handleWS: the range loop ends on the closed and drained queue
SenderExit(p) ==
  /\ sender[p] = "running"
  /\ out[p] = << >>
  /\ closed[p]
  /\ sender' = [sender EXCEPT ![p] = "done"]
  /\ conn' = [conn EXCEPT ![p] = "closed"]
  /\ UNCHANGED <<bbvars, matchvars, tbvars, got, board, mover, white, remaining, start, now, pc, msg, out, closed,
                 foreign, charge, lastEnq, lastRead>>

\* The client of p goes away.
ClientQuit(p) ==
  /\ conn[p] = "open"
  /\ conn' = [conn EXCEPT ![p] = "gone"]
  /\ UNCHANGED <<bbvars, matchvars, tbvars, got, board, mover, white, remaining, start, now, pc, msg, out, closed, sender,
                 foreign, charge, lastEnq, lastRead>>

\* The runner is blocked: in Receive before the deadline, or on a full queue.
BlockedOnMover == pc \in {"echoA", "reply"} /\ Len(out[mover]) = OutCap
BlockedOnWaiter == pc = "echoB" /\ Len(out[Other(mover)]) = OutCap
BlockedInReceive == pc = "receive" /\ conn[mover] = "open" /\ now < start + remaining[mover]
BlockedOnLast ==
  \/ pc = "termB" /\ Len(out[Other(mover)]) = OutCap
  \/ pc = "termA" /\ Len(out[mover]) = OutCap

\* A tick of the clock while the runner is blocked.
Tick ==
  /\ now < MaxNow
  /\ BlockedInReceive \/ BlockedOnMover \/ BlockedOnWaiter \/ BlockedOnLast
  /\ now' = now + 1
  /\ foreign' = IF BlockedOnWaiter THEN foreign + 1 ELSE foreign
  /\ UNCHANGED <<bbvars, matchvars, tbvars, got, board, mover, white, remaining, start, pc, msg, out, closed, sender, conn,
                 charge, lastEnq, lastRead>>

\* The steps the runner takes by itself, without a frame from a client.
RunnerStep ==
  \/ PlayBegin \/ SendStartA \/ SendStartB
  \/ ReceiveTimeout \/ ReceiveError
  \/ SendEchoA \/ SendEchoB \/ SendReply
  \/ SendTermB \/ SendTermA \/ PlayExit

Runner(frames) == Receive(frames) \/ RunnerStep

PlayNext(frames) ==
  \/ Runner(frames)
  \/ \E p \in Players : SenderSend(p)
  \/ \E p \in Players : SenderFail(p)
  \/ \E p \in Players : SenderExit(p)
  \/ \E p \in Players : ClientQuit(p)
  \/ Tick

(***************************************************************************)
(* Part IV: hookUp, the matcher                                            *)
(***************************************************************************)

MaxClients == 4
AvailCap == 100   \* make(chan *Player, 100)

MatchInit ==
  /\ entered = {}
  /\ available = << >>
  /\ holdA = 0
  /\ holdB = 0
  /\ hpc = "takeA"
  /\ games = << >>
  /\ dropped = {}
  /\ failed = FALSE
  /\ numPlayers = 0
  /\ session = [c \in 1 .. MaxClients |-> "none"]
  /\ ws = [c \in 1 .. MaxClients |-> "none"]
  /\ over = {}
  /\ late = {}
  /\ lastTo = 0

\* A client opens a /ws session.  handleWS: atomic.AddInt32(&numPlayers, 1)
Open(c) ==
  /\ session[c] = "none"
  /\ session' = [session EXCEPT ![c] = "enter"]
  /\ ws' = [ws EXCEPT ![c] = "open"]
  /\ numPlayers' = numPlayers + 1
  /\ UNCHANGED <<entered, available, holdA, holdB, hpc, games, dropped, failed,
                 bbvars, playvars, tbvars, runvars>>

\* handleWS: available <- &Player{Conn: ws, Out: out}, then "for msg := range out"
Enter(c) ==
  /\ session[c] = "enter"
  /\ Len(available) < AvailCap
  /\ entered' = entered \cup {c}
  /\ available' = Append(available, c)
  /\ session' = [session EXCEPT ![c] = "range"]
  /\ UNCHANGED <<holdA, holdB, hpc, games, dropped, failed, numPlayers, ws,
                 bbvars, playvars, tbvars, runvars>>

\* The client's game has been started by hookUp.
InGame(c) == \E i \in DOMAIN games : c \in {games[i][1], games[i][2]}

\* handleWS returns: the loop over out has ended, because hookUp has closed
\* out, or in a game, where play closes out in the end and Send may fail
\* before; the deferred function runs:
\* exitStat <- true; atomic.AddInt32(&numPlayers, -1); ws.Close()
Return(c) ==
  /\ session[c] = "range"
  /\ c \in dropped \/ InGame(c)
  /\ session' = [session EXCEPT ![c] = "done"]
  /\ numPlayers' = numPlayers - 1
  /\ ws' = [ws EXCEPT ![c] = "closed"]
  /\ UNCHANGED <<entered, available, holdA, holdB, hpc, games, dropped, failed,
                 bbvars, playvars, tbvars, runvars>>

\* handleWS, the statistics goroutine: Send fails on the connection the
\* client has left; ws.Close(); return
StatClose(c) ==
  /\ session[c] \in {"enter", "range"}
  /\ ws[c] = "gone"
  /\ ws' = [ws EXCEPT ![c] = "closed"]
  /\ UNCHANGED <<entered, available, holdA, holdB, hpc, games, dropped, failed,
                 numPlayers, session, bbvars, playvars, tbvars, runvars>>

\* The client leaves: its end of the connection is closed.
Leave(c) ==
  /\ ws[c] = "open"
  /\ ws' = [ws EXCEPT ![c] = "gone"]
  /\ UNCHANGED <<entered, available, holdA, holdB, hpc, games, dropped, failed,
                 numPlayers, session, bbvars, playvars, tbvars, runvars>>

\* hookUp: a := <-available, before the loop and after a game was started
HookTakeA ==
  /\ hpc = "takeA"
  /\ available # << >>
  /\ holdA' = Head(available)
  /\ available' = Tail(available)
  /\ hpc' = "takeB"
  /\ UNCHANGED <<entered, holdB, games, dropped, failed, numPlayers, session, ws,
                 bbvars, playvars, tbvars, runvars>>

\* HookTakeB receiving the candidate and leaving it in the pool.
HookTakeBPeek ==
  /\ hpc = "takeB"
  /\ available # << >>
  /\ holdB' = Head(available)
  /\ available' = available
  /\ hpc' = "probe"
  /\ UNCHANGED <<entered, holdA, games, dropped, failed, numPlayers, session, ws,
                 bbvars, playvars, tbvars, runvars>>

\* hookUp: b := <-available
HookTakeB ==
  /\ hpc = "takeB"
  /\ available # << >>
  /\ holdB' = Head(available)
  /\ available' = Tail(available)
  /\ hpc' = "probe"
  /\ UNCHANGED <<entered, holdA, games, dropped, failed, numPlayers, session, ws,
                 bbvars, playvars, tbvars, runvars>>

\* A matcher that starts no game.
startGameNever(g, a, b) == g

\* hookUp: go play(a, b)
startGame(g, a, b) == Append(g, <<a, b>>)

\* ProbeTrue starting the game and keeping a as the holder.
ProbeTrueKeepsHolder ==
  /\ games' = startGame(games, holdA, holdB)
  /\ holdA' = holdA
  /\ holdB' = 0
  /\ hpc' = "takeB"
  /\ UNCHANGED <<dropped, failed>>

\* hookUp: Alive() has returned true: go play(a, b); a = <-available
ProbeTrue ==
  /\ games' = startGame(games, holdA, holdB)
  /\ holdA' = 0
  /\ holdB' = 0
  /\ hpc' = "takeA"
  /\ UNCHANGED <<dropped, failed>>

\* ProbeFalse closing the queue of the candidate and keeping the holder.
ProbeFalseDropsCandidate ==
  /\ dropped' = dropped \cup {holdB}
  /\ holdA' = holdA
  /\ holdB' = 0
  /\ hpc' = "takeB"
  /\ failed' = TRUE
  /\ UNCHANGED games

\* hookUp: Alive() has returned false: close(a.Out); a = b
ProbeFalse ==
  /\ dropped' = dropped \cup {holdA}
  /\ holdA' = holdB
  /\ holdB' = 0
  /\ hpc' = "takeB"
  /\ failed' = TRUE
  /\ UNCHANGED games

\* Alive: websocket.JSON.Send(p.Conn, Message{Cmd: "ping"}).  It fails on a
\* connection the server has closed, may fail on one the client has left,
\* and Alive then returns false; else Alive goes on to Receive.
HookPing ==
  /\ hpc = "probe"
  /\ \E sent \in {ws[holdA] = "open", ws[holdA] # "closed"} :
       IF sent
       THEN hpc' = "pong" /\ UNCHANGED <<games, holdA, holdB, dropped, failed>>
       ELSE ProbeFalse
  /\ UNCHANGED <<entered, available, numPlayers, session, ws, bbvars, playvars, tbvars, runvars>>

\* Alive: websocket.JSON.Receive(p.Conn, &msg) returns a frame the client has
\* sent; return msg.Cmd == "pong".  No read deadline is set: Receive waits
\* until the client sends a frame or the connection ends.
HookPongFrame ==
  /\ hpc = "pong"
  /\ ws[holdA] = "open"
  /\ \E pong \in BOOLEAN : IF pong THEN ProbeTrue ELSE ProbeFalse
  /\ UNCHANGED <<entered, available, numPlayers, session, ws, bbvars, playvars, tbvars, runvars>>

\* Alive: Receive returns an error, the connection has ended; return false
HookPongError ==
  /\ hpc = "pong"
  /\ ws[holdA] # "open"
  /\ ProbeFalse
  /\ UNCHANGED <<entered, available, numPlayers, session, ws, bbvars, playvars, tbvars, runvars>>

\* The steps hookUp takes by itself, without a frame from a client.
HookStep == HookTakeA \/ HookTakeB \/ HookPing \/ HookPongError

HookUp == HookStep \/ HookPongFrame

Clients == 1..MaxClients

Connect == \E c \in Clients : Open(c)

\* The steps the tasks of the server take by themselves.
Handlers == \E c \in Clients : Enter(c) \/ Return(c) \/ StatClose(c)

Disconnect == \E c \in Clients : Leave(c)

MatchNext == HookUp \/ Connect \/ Handlers \/ Disconnect

\* The number of close() calls made on the out queue of client c: close(a.Out)
\* of hookUp, and the deferred close(a.Out); close(b.Out) of every play that
\* has returned.
Closes(c) ==
  (IF c \in dropped THEN 1 ELSE 0)
  + Cardinality({<<i, j>> \in over \X {1, 2} : games[i][j] = c})

\* play of game i: a.Out <- msg or b.Out <- msg, any of the sends of the
\* runner; j is the side of the game the frame goes to.
RunnerEnqueue(i, j) ==
  /\ i \in DOMAIN games \ over
  /\ lastTo' = games[i][j]
  /\ late' = IF Closes(games[i][j]) > 0 THEN late \cup {games[i][j]} ELSE late
  /\ UNCHANGED <<entered, available, holdA, holdB, hpc, games, dropped, failed,
                 numPlayers, session, ws, over, bbvars, playvars, tbvars>>

\* play of game i returns: the deferred close(a.Out); close(b.Out)
RunnerExit(i) ==
  /\ i \in DOMAIN games \ over
  /\ over' = over \cup {i}
  /\ UNCHANGED <<entered, available, holdA, holdB, hpc, games, dropped, failed,
                 numPlayers, session, ws, late, lastTo, bbvars, playvars, tbvars>>

\* The runners of the started games.
Runners ==
  \E i \in 1 .. (MaxClients \div 2) :
    RunnerExit(i) \/ \E j \in {1, 2} : RunnerEnqueue(i, j)

vars == <<bbvars, playvars, matchvars, tbvars>>

Init == BBInit /\ PlayInit /\ MatchInit /\ TBInit

SpecBoard == Init /\ [][BBNext]_vars

SpecSAN == Init /\ [][TBNext]_vars

SpecPlay == Init /\ [][PlayNext(Frames)]_vars

\* The game under every time limit from 0 to TimeLimit.
SpecClock == Init /\ [][PlayBeginOther \/ PlayNext(FirstTurnFrames)]_vars

\* The game with the frames of the first turn only, in which the runner takes
\* the steps that wait for no client, and a sender whose Send keeps succeeding
\* keeps draining its queue.
FairSpecPlay ==
  /\ Init
  /\ [][PlayNext(FirstTurnFrames)]_vars
  /\ WF_vars(RunnerStep)
  /\ \A p \in Players : WF_vars(SenderSend(p)) /\ WF_vars(SenderExit(p))

SpecMatch == Init /\ [][MatchNext]_vars

\* The matcher together with the runners of the games it starts.
SpecServer == Init /\ [][MatchNext \/ Runners]_vars

\* The matcher keeps running, and a probed client that stays connected
\* answers the ping.
FairSpecMatch == SpecMatch /\ WF_vars(HookUp)

\* The matcher keeps running; a probed client may stay silent.
FairSpecProbe == SpecMatch /\ WF_vars(HookStep)

(***************************************************************************)
(* Properties of play                                                      *)
(***************************************************************************)

\* C1: the time deducted from a player, or the timeout declared against a
\* player, covers only time the runner spent waiting for that player's own
\* frame: it holds no tick the runner spent blocked on the out queue of the
\* other player.
C1_ChargeCoversOwnWaitOnly == charge.foreign = 0

Stopped == pc \in {"termB", "termA", "close", "done"}

\* C2: a game that stops, on a timeout or on a read error, eventually closes
\* both players' out queues, also when a sender has returned after a write
\* error.
C2_StoppedGameClosesQueues == Stopped ~> (closed["p1"] /\ closed["p2"])

TimedOut == charge.kind = "timeout"

\* C6: once the read on the mover has reached its deadline, the mover's
\* remaining time is 0, the runner accepts no further frame, and the frame
\* "Out of time: <colour of the waiter> wins!" gets enqueued for both players.
C6_TimeoutEndsGame ==
  /\ [](TimedOut => remaining[mover] = 0 /\ pc # "receive"
                    /\ msg = timeoutFrame(white[Other(mover)]))
  /\ TimedOut ~> (TimedOut /\ pc \in {"close", "done"})

\* The read on the mover has failed with an error that is no timeout.
ReadFailed == Stopped /\ msg = quitFrame

\* C17: once the read on the mover has failed with an error that is not a
\* timeout, neither player's remaining time changes, the runner accepts no
\* further frame, what it enqueues is the frame "Opponent quit... Reload?",
\* and that frame gets enqueued for both players.
C17_ReadErrorEndsGame ==
  /\ [][(ReadFailed' => remaining' = remaining)]_vars
  /\ [](ReadFailed => pc # "receive")
  /\ []((ReadFailed /\ pc \in {"termA", "close", "done"}) => lastEnq.msg = quitFrame)
  /\ ReadFailed ~> (ReadFailed /\ pc \in {"close", "done"})

\* The sender of p has returned on a write error.
Broken(p) == got[p].phase = "failed"

\* C19: each player receives the frames enqueued for it in order, none lost
\* or duplicated: the start frame, then the move echoes in the order the moves
\* were accepted, then one terminal msg frame, after which its out queue is
\* closed and nothing more is delivered.  (A player whose connection has
\* failed on a write is left aside.)
C19_FramesDeliveredInOrder ==
  /\ [](\A p \in Players : got[p].phase # "bad")
  /\ Stopped ~> (\A p \in Players :
                   \/ Broken(p)
                   \/ got[p].phase = "ended" /\ got[p].n = Len(board.hist) /\ closed[p])

\* C20: for every configured time limit and every run of play(), each
\* player's remaining time starts at the limit, is never negative, and never
\* increases from one state to the next.
C20_ClockNeverIncreases ==
  /\ [][pc = "begin" => \E limit \in 0 .. TimeLimit : remaining' = [p \in Players |-> limit]]_vars
  /\ [](\A p \in Players : remaining[p] >= 0)
  /\ [][pc # "begin" => \A p \in Players : remaining'[p] <= remaining[p]]_vars

ClockFrame == lastEnq.msg.cmd \in {"start", "move"}

\* C7 (as the code has it): in every start frame and every move echo
\* enqueued, remainingA is the remaining time of White and remainingB the
\* remaining time of Black, whoever the recipient is.
C7_ClocksByColour ==
  ClockFrame =>
    \A p \in Players :
      lastEnq.white[p] =>
        /\ lastEnq.msg.remainingA = lastEnq.remaining[p]
        /\ lastEnq.msg.remainingB = lastEnq.remaining[Other(p)]

\* C7 (as stated): in every start frame and every move echo enqueued,
\* remainingA is the recipient's own remaining time and remainingB the
\* opponent's.
C7_ClocksByRecipient ==
  ClockFrame =>
    /\ lastEnq.msg.remainingA = lastEnq.remaining[lastEnq.to]
    /\ lastEnq.msg.remainingB = lastEnq.remaining[Other(lastEnq.to)]

\* A move echo enqueued for Black while the two clocks differ.
C7_EchoToBlack ==
  /\ lastEnq.msg.cmd = "move"
  /\ ~lastEnq.white[lastEnq.to]
  /\ lastEnq.remaining["p1"] # lastEnq.remaining["p2"]

\* C9: reading a frame that is neither an accepted move nor a valid select
\* enqueues nothing and leaves the board, the roles, both clocks and start
\* unchanged.
C9_RejectedFrameChangesNothing ==
  [][(lastRead' # lastRead /\ lastRead'.kind = "rejected")
       => UNCHANGED <<board, mover, remaining, start, out>>]_vars

\* The game is on and the deadline start + remaining of the mover has passed.
Expired == pc \in {"receive", "reply", "echoA", "echoB"} /\ now >= start + remaining[mover]

\* C24: rejected frames and select requests never extend the mover's
\* deadline: handling one leaves start, the mover and the mover's remaining
\* time as they were, so that a mover who sends no accepted move is declared
\* out of time once the deadline has passed (unless the read fails on the
\* mover's closed connection first).
C24_DeadlineNotExtended ==
  /\ [][(lastRead' # lastRead /\ lastRead'.kind \in {"rejected", "select"})
         => UNCHANGED <<start, mover, remaining>>]_vars
  /\ [][(pc = "reply") => UNCHANGED <<start, mover, remaining>>]_vars
  /\ Expired ~> (TimedOut \/ ReadFailed)

\* The runner accepts a move in this step.
Accepts == lastRead' # lastRead /\ lastRead'.kind = "accepted"

\* C27: when the runner accepts a move after elapsed time e since start, the
\* mover's remaining becomes max(10ms, remaining - e), the waiter's remaining
\* is unchanged, start is set to the acceptance instant, mover and waiter
\* swap roles, and the echo frame carries history = board.LastMove() and is
\* enqueued once for each player before the next frame is read.
C27_AcceptedMoveUpdatesClockAndEchoes ==
  /\ [][Accepts
         => /\ remaining'[mover] \in {MinRemaining, remaining[mover] - (now - start)}
            /\ remaining'[mover] >= MinRemaining
            /\ remaining'[mover] >= remaining[mover] - (now - start)
            /\ remaining'[Other(mover)] = remaining[Other(mover)]
            /\ start' = now
            /\ mover' = Other(mover)
            /\ msg'.cmd = "move" /\ msg'.history = LastMove88(board')
            /\ msg'.history # << >>
            /\ pc' = "echoA" /\ out' = out]_vars
  /\ [][(pc = "echoA" /\ pc' # pc)
         => /\ out' = [out EXCEPT ![mover] = Append(@, msg)]
            /\ pc' = "echoB"]_vars
  /\ [][(pc = "echoB" /\ pc' # pc)
         => /\ out' = [out EXCEPT ![Other(mover)] = Append(@, msg)]
            /\ pc' = "receive"]_vars
  /\ [][(pc \in {"echoA", "echoB"}) => UNCHANGED <<msg, mover, remaining, start, board>>]_vars
  /\ (pc = "echoA") ~> (pc = "receive")

\* The runner reads a select frame for the current turn and colour in this step.
Selects == lastRead' # lastRead /\ lastRead'.kind = "select"

\* C28: a select frame from the mover with the current turn number and
\* side-to-move colour produces exactly one reply, enqueued on the mover's out
\* queue only and listing the board's candidate moves for the requested
\* square; nothing is enqueued for the waiter, and the board, the roles, both
\* clocks and start are unchanged.
C28_SelectRepliesToMoverOnly ==
  /\ [][Selects
         => /\ msg'.cmd = "select" /\ msg'.turn = Turn88(board)
            /\ msg'.white = White88(board)
            /\ msg'.moves = Moves88(board, msg'.ax, msg'.ay)
            /\ pc' = "reply"
            /\ UNCHANGED <<board, mover, remaining, start, out>>]_vars
  /\ [][(pc = "reply" /\ pc' # pc)
         => /\ out' = [out EXCEPT ![mover] = Append(@, msg)]
            /\ pc' = "receive"]_vars
  /\ [][(pc = "reply")
         => /\ UNCHANGED <<msg, board, mover, remaining, start>>
            /\ Len(out'[Other(mover)]) <= Len(out[Other(mover)])]_vars
  /\ (pc = "reply") ~> (pc = "receive")

\* White has asked for the moves of the knight on g1 and the reply, listing
\* f3 and h3, is the last frame enqueued, on White's queue.
C28_KnightMovesListed ==
  /\ pc = "receive" /\ lastRead.kind = "select"
  /\ lastEnq.to = mover /\ white[mover] /\ lastEnq.msg.cmd = "select"
  /\ lastEnq.msg.moves = {Pos(5, 2), Pos(7, 2)}
  /\ Len(board.hist) = 0

\* A frame of the mover has been accepted as a move in this step.
MoveAccepted == lastRead' # lastRead /\ lastRead'.kind = "accepted"

\* C36: in every iteration of play's main loop the player being read (the
\* mover) is the one whose assigned colour equals the board's side to move;
\* exactly one player is White; accepted moves come alternately from the two
\* players, starting with the player assigned White; and the board changes
\* only by a frame read from the mover, never by one of the waiter.
C36_MoverHasSideToMove ==
  /\ [](pc # "begin" => /\ white[mover] = White88(board)
                        /\ white[Other(mover)] # white[mover])
  /\ [][MoveAccepted
         => /\ pc = "receive" /\ mover' = Other(mover)
            /\ white[mover] = (Len(board.hist) % 2 = 0)
            /\ Len(board'.hist) = Len(board.hist) + 1
            /\ White88(board') # White88(board)
            /\ charge'.to = mover]_vars
  /\ [][(pc # "begin" /\ board' # board)
         => pc = "receive" /\ conn[mover] = "open" /\ lastRead' # lastRead]_vars

\* White and Black have each had a move accepted, and White is read again.
C36_WhiteReadAgain ==
  /\ pc = "receive" /\ Len(board.hist) = 2 /\ white[mover]
  /\ lastRead.kind = "accepted" /\ charge.to = Other(mover)

(***************************************************************************)
(* Properties of hookUp                                                    *)
(***************************************************************************)

\* No task of the server can take a step: whatever happens next is a client
\* connecting or leaving.
Quiescent == ~ENABLED (HookStep \/ Handlers)

\* C18: numPlayers counts the sessions that have been opened and have not
\* ended, and in every quiescent state it equals the number of /ws
\* connections that are still open.
C18_NumPlayersCountsOpenConnections ==
  /\ numPlayers = Cardinality({c \in Clients : session[c] \in {"enter", "range"}})
  /\ Quiescent => numPlayers = Cardinality({c \in Clients : ws[c] = "open"})

\* C25: the liveness probe Alive() always returns within a bounded time after
\* the ping is sent, even when the probed client stays connected and never
\* sends a frame: hookUp never waits forever on one holder.
C25_ProbeReturns == (hpc = "pong") ~> (hpc # "pong")

\* Alive() returns in this step.
ProbeReturns == hpc \in {"probe", "pong"} /\ hpc' # hpc /\ hpc' # "pong"

\* C26: when the probe of the holder returns false while a candidate has been
\* received, hookUp closes the holder's out queue, starts no game, and makes
\* the candidate the new holder, which is neither dropped nor in a game at
\* that step; no game ever contains a client whose queue hookUp has closed;
\* and when the probe returns true the game started is the one of the holder
\* and the candidate.
C26_FalseProbeKeepsCandidate ==
  /\ [][(ProbeReturns /\ hpc' = "takeB")
         => /\ dropped' = dropped \cup {holdA}
            /\ games' = games
            /\ holdA' = holdB /\ holdB # 0
            /\ holdB \notin dropped'
            /\ \A i \in DOMAIN games' : holdB \notin {games'[i][1], games'[i][2]}]_vars
  /\ [][(ProbeReturns /\ hpc' = "takeA")
         => /\ games' = Append(games, <<holdA, holdB>>)
            /\ dropped' = dropped]_vars
  /\ [](\A c \in dropped : \A i \in DOMAIN games : c \notin {games[i][1], games[i][2]})

\* The probe of holder 1 has returned false when candidate 2 had been
\* received, and 2 has been paired with the next arrival, 3.
C26_CandidatePairedWithNext == dropped = {1} /\ games = << <<2, 3>> >>

GamesOf(c) == {i \in 1..Len(games) : games[i][1] = c \/ games[i][2] = c}

Matched ==
  /\ Len(games) = Cardinality(entered) \div 2
  /\ \A c \in entered : Cardinality(GamesOf(c)) = 1

\* C8: if an even number N of clients enter the pool and every liveness probe
\* returns true, then from some moment on exactly N/2 games have been started
\* and every one of the N clients is a participant of exactly one of them.
C8_AllPaired == <>[](Cardinality(entered) % 2 = 1 \/ failed \/ Matched)

\* Four clients, paired into two games.
C8_TwoGames == entered = Clients /\ ~failed /\ Len(games) = 2 /\ Matched

\* The places where a Player reference is held: a slot of the pool, the
\* matcher's holder a, the matcher's candidate b, a side of a started game.
PoolSlots(c) == {i \in DOMAIN available : available[i] = c}

GameSlots(c) == {<<i, j>> \in (DOMAIN games) \X {1, 2} : games[i][j] = c}

Owners(c) ==
  Cardinality(PoolSlots(c)) + Cardinality(GameSlots(c))
  + (IF holdA = c THEN 1 ELSE 0) + (IF holdB = c THEN 1 ELSE 0)

\* C34: at every moment each Player is held by at most one owner: the waiting
\* pool, the matcher (as holder or as candidate), or exactly one game runner.
\* No player takes part in two games, or is in a game while still in the pool
\* or held by the matcher; a player whose queue the matcher has closed is
\* held by nobody.
C34_OneOwner ==
  /\ \A c \in Clients : Owners(c) <= 1
  /\ \A c \in Clients \ entered : Owners(c) = 0
  /\ \A c \in dropped : Owners(c) = 0

\* One game runs, the matcher holds a third player and a fourth waits in the
\* pool.
C34_GameHolderAndPool ==
  /\ Len(games) = 1 /\ holdA # 0 /\ available # << >>
  /\ Cardinality({games[1][1], games[1][2], holdA, available[1]}) = 4

\* C35: in every interleaving no frame is enqueued on an out queue after that
\* queue has been closed and no out queue is closed twice: only the runner of
\* a game enqueues, on the queues of its two players, and a queue is closed
\* either by the matcher (a dead holder that was never handed to a game) or
\* by the runner when the game exits, never by both.
C35_QueuesClosedOnce ==
  /\ [](late = {} /\ \A c \in Clients : Closes(c) <= 1)
  /\ [][dropped' # dropped
         => /\ dropped' = dropped \cup {holdA}
            /\ Closes(holdA) = 0 /\ GameSlots(holdA) = {}]_vars
  /\ [][lastTo' # lastTo
         => \E i \in DOMAIN games \ over : lastTo' \in {games[i][1], games[i][2]}]_vars
  /\ [][over' # over
         => \E i \in DOMAIN games \ over :
              /\ over' = over \cup {i}
              /\ games[i][1] # games[i][2]
              /\ Closes(games[i][1]) = 0 /\ Closes(games[i][2]) = 0]_vars

\* The matcher has closed the queue of a dead holder, and the runner of a game
\* of two others has enqueued a frame and has returned, closing their queues.
C35_MatcherAndRunnerClosed ==
  /\ dropped # {} /\ over = {1} /\ lastTo \in {games[1][1], games[1][2]}
  /\ \A c \in dropped \cup {games[1][1], games[1][2]} : Closes(c) = 1

====
